---------------------------- MODULE Spec2Model ----------------------------
(***************************************************************************)
(* Warehouse_Management: the spreadsheet importers.                        *)
(*                                                                         *)
(*  - spare-parts page: doImportSelectedSheet and its batch loop with      *)
(*    tryInsertWithMissingColumnRecovery (one retry with a column          *)
(*    stripped);                                                           *)
(*  - inventory page: importSelectedSheet and its batch upsert loop;       *)
(*  - warehouses page: FileUploader.handleFile, which maps workbook rows   *)
(*    and merges them into the browser stores.                             *)
(*                                                                         *)
(* JavaScript strings that the code inspects character by character        *)
(* (error messages, column keys, headers) are sequences of one-character   *)
(* strings, so that the regular expression and the case conversions are    *)
(* computed as the code computes them.                                     *)
(***************************************************************************)
EXTENDS Integers, Sequences, FiniteSets, TLC

(***************************************************************************)
(* Bounds of the model.                                                    *)
(***************************************************************************)
\* An import has up to MaxFullBatches full batches, give or take one row.
MaxFullBatches == 2

(***************************************************************************)
(* Characters.                                                             *)
(***************************************************************************)
UpperChars ==
    <<"A","B","C","D","E","F","G","H","I","J","K","L","M",
      "N","O","P","Q","R","S","T","U","V","W","X","Y","Z">>

LowerChars ==
    <<"a","b","c","d","e","f","g","h","i","j","k","l","m",
      "n","o","p","q","r","s","t","u","v","w","x","y","z">>

IsUpper(c) == \E k \in 1..26 : UpperChars[k] = c

IsLower(c) == \E k \in 1..26 : LowerChars[k] = c

\* String.prototype.toLowerCase / toUpperCase on one character
toLowerCase(c) ==
    IF IsUpper(c) THEN LowerChars[CHOOSE k \in 1..26 : UpperChars[k] = c] ELSE c

toUpperCase(c) ==
    IF IsLower(c) THEN UpperChars[CHOOSE k \in 1..26 : LowerChars[k] = c] ELSE c

LowerSeq(s) == [k \in 1..Len(s) |-> toLowerCase(s[k])]

\* \s of the regular expressions, on the characters the model uses
IsSpace(c) == c = " "

Quote == "\""

(***************************************************************************)
(* snake <-> camel (spare-parts page).                                     *)
(***************************************************************************)
\* s.replace(/[A-Z]/g, letter => `_${letter.toLowerCase()}`)
RECURSIVE camelToSnake(_)
camelToSnake(s) ==
    IF s = <<>> THEN <<>>
    ELSE IF IsUpper(Head(s))
         THEN <<"_", toLowerCase(Head(s))>> \o camelToSnake(Tail(s))
         ELSE <<Head(s)>> \o camelToSnake(Tail(s))

\* s.replace(/_([a-z])/g, (_, g) => g.toUpperCase())
RECURSIVE snakeToCamel(_)
snakeToCamel(s) ==
    IF s = <<>> THEN <<>>
    ELSE IF Head(s) = "_" /\ Len(s) >= 2 /\ IsLower(s[2])
         THEN <<toUpperCase(s[2])>> \o snakeToCamel(Tail(Tail(s)))
         ELSE <<Head(s)>> \o snakeToCamel(Tail(s))

(***************************************************************************)
(* The missing-column pattern of tryInsertWithMissingColumnRecovery:       *)
(*     /column\s+"?([^"\s]+)"?\s+of\s+relation/i                           *)
(***************************************************************************)
W_column ==
    <<"c","o","l","u","m","n">>

W_of ==
    <<"o","f">>

W_relation ==
    <<"r","e","l","a","t","i","o","n">>

\* the literal w (case-insensitive) stands in msg at position p
LiteralAt(msg, p, w) ==
    /\ p >= 1
    /\ p + Len(w) - 1 <= Len(msg)
    /\ LowerSeq(SubSeq(msg, p, p + Len(w) - 1)) = w

\* first position >= p that holds no white space (Len(msg)+1 when none)
RECURSIVE SkipSpaces(_, _)
SkipSpaces(msg, p) ==
    IF p <= Len(msg) /\ IsSpace(msg[p]) THEN SkipSpaces(msg, p + 1) ELSE p

\* first position >= p that holds a quote or white space: the end of [^"\s]+
RECURSIVE SkipName(_, _)
SkipName(msg, p) ==
    IF p <= Len(msg) /\ ~IsSpace(msg[p]) /\ msg[p] # Quote
    THEN SkipName(msg, p + 1) ELSE p

\* The match that starts at p, as <<captured group>>, or <<>> when the
\* pattern does not match there.  [^"\s]+ is greedy and can give nothing
\* back: what follows it must be a quote or white space.
MatchAt(msg, p) ==
    IF ~LiteralAt(msg, p, W_column) THEN <<>>
    ELSE LET a  == p + Len(W_column)
             b  == SkipSpaces(msg, a)
             c  == IF b <= Len(msg) /\ msg[b] = Quote THEN b + 1 ELSE b
             d  == SkipName(msg, c)
             e  == IF d <= Len(msg) /\ msg[d] = Quote THEN d + 1 ELSE d
             f  == SkipSpaces(msg, e)
             g  == f + Len(W_of)
             h  == SkipSpaces(msg, g)
         IN  IF /\ b > a
                /\ d > c
                /\ f > e
                /\ LiteralAt(msg, f, W_of)
                /\ h > g
                /\ LiteralAt(msg, h, W_relation)
             THEN <<SubSeq(msg, c, d - 1)>>
             ELSE <<>>

\* msg.match(...): the leftmost match; <<>> stands for null, <<col>> for
\* a match whose group 1 is col
RECURSIVE MatchFrom(_, _)
MatchFrom(msg, p) ==
    IF p > Len(msg) THEN <<>>
    ELSE IF MatchAt(msg, p) # <<>> THEN MatchAt(msg, p)
         ELSE MatchFrom(msg, p + 1)

missingMatch(msg) == MatchFrom(msg, 1)


(***************************************************************************)
(* Cell and field values: a JavaScript string, number or null.             *)
(***************************************************************************)
Str(s) == [t |-> "str", s |-> s]

Num(n) == [t |-> "num", n |-> n]

Null == [t |-> "null"]

(***************************************************************************)
(* Column keys of the payload rows.  A row is a function from its keys to   *)
(* values; Spelling gives each key's characters, which is what the         *)
(* missing-column recovery compares.                                       *)
(***************************************************************************)
Spelling ==
    [ part_number |-> <<"p","a","r","t","_","n","u","m","b","e","r">>,
      name |-> <<"n","a","m","e">>,
      description |-> <<"d","e","s","c","r","i","p","t","i","o","n">>,
      compatibility |-> <<"c","o","m","p","a","t","i","b","i","l","i","t","y">>,
      reorder_threshold |-> <<"r","e","o","r","d","e","r","_","t","h","r","e","s","h","o","l","d">>,
      category_id |-> <<"c","a","t","e","g","o","r","y","_","i","d">>,
      sku |-> <<"s","k","u">>,
      category |-> <<"c","a","t","e","g","o","r","y">>,
      warehouse_id |-> <<"w","a","r","e","h","o","u","s","e","_","i","d">>,
      rack_id |-> <<"r","a","c","k","_","i","d">>,
      qty |-> <<"q","t","y">>,
      unit_price |-> <<"u","n","i","t","_","p","r","i","c","e">> ]

(***************************************************************************)
(* What the backend may answer to a write.  A response is [error |-> e],   *)
(* e = <<>> for no error and <<[message, details]>> for an error.          *)
(***************************************************************************)
\* column "rack_id" of relation "spare_parts" does not exist
MsgMissingRackId ==
    <<"c","o","l","u","m","n"," ","\"","r","a","c","k","_","i","d","\""," ","o","f"," ","r",
      "e","l","a","t","i","o","n"," ","\"","s","p","a","r","e","_","p","a","r","t","s","\"",
      " ","d","o","e","s"," ","n","o","t"," ","e","x","i","s","t">>

\* column "categoryId" of relation "spare_parts" does not exist
MsgMissingCategoryId ==
    <<"c","o","l","u","m","n"," ","\"","c","a","t","e","g","o","r","y","I","d","\""," ","o",
      "f"," ","r","e","l","a","t","i","o","n"," ","\"","s","p","a","r","e","_","p","a","r",
      "t","s","\""," ","d","o","e","s"," ","n","o","t"," ","e","x","i","s","t">>

\* null value in column "name" of relation "spare_parts" violates not-null constraint
MsgNotNullName ==
    <<"n","u","l","l"," ","v","a","l","u","e"," ","i","n"," ","c","o","l","u","m","n"," ",
      "\"","n","a","m","e","\""," ","o","f"," ","r","e","l","a","t","i","o","n"," ","\"",
      "s","p","a","r","e","_","p","a","r","t","s","\""," ","v","i","o","l","a","t","e","s",
      " ","n","o","t","-","n","u","l","l"," ","c","o","n","s","t","r","a","i","n","t">>

\* TypeError: Failed to fetch
MsgFailedToFetch ==
    <<"T","y","p","e","E","r","r","o","r",":"," ","F","a","i","l","e","d"," ","t","o"," ",
      "f","e","t","c","h">>

\* Failing row
DetailsFailingRow ==
    <<"F","a","i","l","i","n","g"," ","r","o","w">>

NoError == <<>>

Error(m, d) == <<[message |-> m, details |-> d]>>

\* the unknown-column rejections
SchemaDriftErrors ==
    { Error(MsgMissingRackId, <<>>), Error(MsgMissingCategoryId, <<>>) }

\* every other rejection: a constraint violation, no connection
WriteErrors ==
    { Error(MsgNotNullName, DetailsFailingRow), Error(MsgFailedToFetch, <<>>) }

Responses ==
    { [error |-> e] : e \in {NoError} \cup SchemaDriftErrors \cup WriteErrors }

(***************************************************************************)
(* Prepared rows.  Row n of a sheet carries n in its identifier, so that   *)
(* rows are told apart; its other cells follow one of two kinds.           *)
(***************************************************************************)
\* spare-parts page, rowObj: category_id is set only when a category was
\* given and resolved; rack_id is never set
rowObj(n, kind) ==
    IF kind = 0
    THEN ("part_number" :> Num(n)) @@ ("name" :> Str("Bolt"))
         @@ ("description" :> Null) @@ ("compatibility" :> Str("M8"))
         @@ ("reorder_threshold" :> Num(5)) @@ ("category_id" :> Str("cat-1"))
    ELSE ("part_number" :> Num(n)) @@ ("name" :> Null)
         @@ ("description" :> Str("spare")) @@ ("compatibility" :> Null)
         @@ ("reorder_threshold" :> Null)

\* inventory page, one element of payloads
payloadRow(n, kind) ==
    ("sku" :> Num(n)) @@ ("name" :> Str("Bolt"))
    @@ ("category" :> IF kind = 0 THEN Str("Fasteners") ELSE Null)
    @@ ("warehouse_id" :> IF kind = 0 THEN Str("W1") ELSE Null)
    @@ ("rack_id" :> Null)
    @@ ("qty" :> Num(12)) @@ ("unit_price" :> Num(0))
    @@ ("reorder_threshold" :> Num(0))

\* the row counts tried for batch size K: whole batches, give or take a row
RowCounts(K) ==
    { c \in { k * K + d : k \in 0..MaxFullBatches, d \in {-1, 0, 1} } : c >= 0 }

\* slice with its end taken as inclusive
slice_endInclusive(arr, from, to) ==
    SubSeq(arr, from + 1, IF to + 1 < Len(arr) THEN to + 1 ELSE Len(arr))

\* Array.prototype.slice(from, to) with 0 <= from <= to, as a sequence
slice(arr, from, to) ==
    SubSeq(arr, from + 1, IF to < Len(arr) THEN to ELSE Len(arr))

(***************************************************************************)
(* State.                                                                  *)
(***************************************************************************)
VARIABLES
    page,               \* the page whose import runs: "spare_parts" or "inventory"
    writes,             \* backend: the batch writes issued so far, in order
    responses,          \* backend: the answers returned so far, one per write
    \* spare-parts page (SparePartsPage)
    sp_selectedSheet,   \* <<>> for null, <<name>> for a chosen sheet
    sp_importModalOpen,
    sp_importing,
    sp_importError,     \* <<>> for null, <<text>> for a message
    sp_alert,           \* <<>>, or <<n>> after alert(`Imported ${n} rows successfully.`)
    toInsert,           \* the prepared rows
    sp_i,               \* the batch loop's index i
    sp_pc,              \* where doImportSelectedSheet stands
    resp1,              \* tryInsert...: the first insert's response, as <<resp>>
    resp,               \* the response tryInsert... returned, as <<resp>>
    \* inventory page (InventoryPage)
    inv_selectedSheet,
    inv_importing,
    inv_importError,
    inv_importMessage,  \* <<>>, or <<n>> after `Imported ${n} rows from ...`
    payloads,
    inv_i,
    inv_pc,
    upserted

backendVars == <<writes, responses>>

spVars ==
    <<sp_selectedSheet, sp_importModalOpen, sp_importing, sp_importError, sp_alert,
      toInsert, sp_i, sp_pc, resp1, resp>>

invVars ==
    <<inv_selectedSheet, inv_importing, inv_importError, inv_importMessage,
      payloads, inv_i, inv_pc, upserted>>

importVars == <<page, backendVars, spVars, invVars>>

(***************************************************************************)
(* Warehouses page: state.                                                 *)
(***************************************************************************)
VARIABLES
    localStorage,   \* the four stores: key -> the parsed array (<<>> when unset)
    posted,         \* the messages posted on the broadcast channel, in order
    shown,          \* WarehousesPage: the arrays loadAll last read, by key
    fu_message,     \* FileUploader: <<>> or <<counts>> of the `Imported: ...` text
    fu_errors,      \* FileUploader: <<>> or <<text>>
    uidCount,       \* the rows mapped so far: what makes uid()'s next value fresh
    clock,          \* Date.now(), counted in imports
    merges          \* the inventory merges of the last import: [prev, it, result]

storeVars ==
    <<localStorage, posted, shown, fu_message, fu_errors, uidCount, clock, merges>>

(***************************************************************************)
(* The helper functions of the pages, called on their own.                 *)
(***************************************************************************)
VARIABLES
    call,           \* the call being made: [fn |-> its name, arg |-> its arguments]
    result          \* <<>> until the call returns, then <<the value returned>>

fnVars == <<call, result>>

(***************************************************************************)
(* The stock adjust endpoint and the inventory page's realtime list.       *)
(***************************************************************************)
VARIABLES
    inventory_items,    \* adjust: the rows of the table inventory_items
    transactions,       \* adjust: the rows inserted into the table transactions
    requests,           \* adjust: by request, its body, position and answer
    items               \* inventory page: the state `items`

apiVars == <<inventory_items, transactions, requests, items>>

\* no adjust request has arrived and the inventory page shows nothing
NoApiInit ==
    /\ inventory_items = <<>>
    /\ transactions = <<>>
    /\ requests = <<>>
    /\ items = <<>>

(***************************************************************************)
(* The files handed to the page's file input.                              *)
(***************************************************************************)
VARIABLES
    files           \* the files chosen on the page so far, in order

fileVars == <<files>>

\* no file has been chosen yet
NoFileInit == files = <<>>

(***************************************************************************)
(* Warehouses page: the broadcast channel and a second browser tab.        *)
(***************************************************************************)
VARIABLES
    bc_supported,   \* createBroadcaster: whether new BroadcastChannel() succeeded
    channelItem,    \* fallback: the message kept under `__wms_channel_v1`, as <<m>>
    inbox,          \* the second tab: the messages delivered to it, not yet handled
    tab_shown,      \* the second tab's WarehousesPage: the arrays loadAll last read
    tab_mounted,    \* whether the second tab's WarehousesPage is mounted
    clear_pc,       \* clearAll: the number of its writes made so far; 0 at rest
    lastOp,         \* the page's last operation, as [name, ...its arguments]
    mounted         \* whether the page of this tab is still mounted

tabVars ==
    <<bc_supported, channelItem, inbox, tab_shown, tab_mounted, clear_pc, lastOp, mounted>>

\* BroadcastChannel is available and no second tab is open
NoTabInit ==
    /\ bc_supported = TRUE
    /\ channelItem = <<>>
    /\ inbox = <<>>
    /\ tab_shown = [k \in {"wms:warehouses:v1", "wms:inventory:v1", "wms:racks:v1",
                            "wms:spareparts:v1"} |-> <<>>]
    /\ tab_mounted = FALSE
    /\ clear_pc = 0
    /\ lastOp = [name |-> ""]
    /\ mounted = TRUE

(***************************************************************************)
(* The upload endpoint (POST /api/upload): one request.                    *)
(***************************************************************************)
VARIABLES
    scope,          \* body.scope
    data,           \* body.data: the rows
    post_i,         \* the row loop's index i
    post_pc,        \* where POST stands
    inserted,
    updated,
    errors,
    db,             \* the insert and update calls issued so far, in order
    response,       \* <<>> until POST returns, then <<the JSON returned>>
    tableKeys       \* the scope's table: the uniqueness keys of its rows

postVars ==
    <<scope, data, post_i, post_pc, inserted, updated, errors, db, response, tableKeys>>

\* no request has been made
NoPostInit ==
    /\ scope = ""
    /\ data = <<>>
    /\ post_i = 0
    /\ post_pc = "idle"
    /\ inserted = 0
    /\ updated = 0
    /\ errors = <<>>
    /\ db = <<>>
    /\ response = <<>>
    /\ tableKeys = <<>>

NoCall == [fn |-> "", arg |-> <<>>]

\* no helper is being called on its own
NoCallInit == call = NoCall /\ result = <<>>

KEY_WAREHOUSES == "wms:warehouses:v1"

KEY_INVENTORY == "wms:inventory:v1"

KEY_RACKS == "wms:racks:v1"

KEY_SPAREPARTS == "wms:spareparts:v1"

StoreKeys == {KEY_WAREHOUSES, KEY_INVENTORY, KEY_RACKS, KEY_SPAREPARTS}

\* 'Failed to parse workbook. Ensure it is a valid .xlsx file.'
TextParseFailed == <<"Failed to parse workbook.">>

StoreInit ==
    /\ localStorage = [k \in StoreKeys |-> <<>>]
    /\ posted = <<>>
    /\ shown = [k \in StoreKeys |-> <<>>]
    /\ fu_message = <<>>
    /\ fu_errors = <<>>
    /\ uidCount = 0
    /\ clock = 0
    /\ merges = <<>>

\* const BATCH_SIZE = 200 (spare-parts page)
BATCH_SIZE == 200

\* const batchSize = 300 (inventory page)
batchSize == 300

\* fixed texts of setImportError, as <<text>>
\* 'No sheet selected.'
TextNoSheet ==
    <<<<"N","o"," ","s","h","e","e","t"," ","s","e","l","e","c","t","e","d",".">>>>

\* 'Selected sheet is empty.'
TextEmptySheet ==
    <<<<"S","e","l","e","c","t","e","d"," ","s","h","e","e","t"," ","i","s"," ","e","m",
        "p","t","y",".">>>>

\* 'No sheet selected or workbook missing.'
TextNoSheetOrWorkbook ==
    <<<<"N","o"," ","s","h","e","e","t"," ","s","e","l","e","c","t","e","d"," ","o","r",
        " ","w","o","r","k","b","o","o","k"," ","m","i","s","s","i","n","g",".">>>>

\* `Supabase insert failed: `
InsertFailedPrefix ==
    <<"S","u","p","a","b","a","s","e"," ","i","n","s","e","r","t"," ","f","a","i","l","e",
      "d",":"," ">>

\* `Supabase insert failed: ${errMsg} ${errDetails}`
InsertFailedText(err) ==
    <<InsertFailedPrefix \o err.message \o <<" ">> \o err.details>>

\* one supabase.from(table).insert / upsert call, as the backend sees it
Write(table, rows, at, attempt) ==
    [table |-> table, rows |-> rows, at |-> at, attempt |-> attempt]

\* The import of one sheet on one page; the other page stays idle.
ImportInit ==
    /\ page \in {"spare_parts", "inventory"}
    /\ writes = <<>>
    /\ responses = <<>>
    /\ \E sheet \in {<<>>, <<"Sheet1">>} :
          /\ sp_selectedSheet = IF page = "spare_parts" THEN sheet ELSE <<>>
          /\ inv_selectedSheet = IF page = "inventory" THEN sheet ELSE <<>>
    /\ sp_importModalOpen = TRUE
    /\ sp_importing = FALSE
    /\ sp_importError = <<>>
    /\ sp_alert = <<>>
    /\ \E n \in RowCounts(IF page = "spare_parts" THEN BATCH_SIZE ELSE batchSize) :
          /\ toInsert = IF page = "spare_parts"
                        THEN [k \in 1..n |-> rowObj(k, k % 2)] ELSE <<>>
          /\ payloads = IF page = "inventory"
                        THEN [k \in 1..n |-> payloadRow(k, k % 2)] ELSE <<>>
    /\ sp_i = 0
    /\ sp_pc = "idle"
    /\ resp1 = <<>>
    /\ resp = <<>>
    /\ inv_importing = FALSE
    /\ inv_importError = <<>>
    /\ inv_importMessage = <<>>
    /\ inv_i = 0
    /\ inv_pc = "idle"
    /\ upserted = 0

(***************************************************************************)
(* Spare-parts page: tryInsertWithMissingColumnRecovery.                   *)
(***************************************************************************)
\* the object r without the key spelled name (delete copy[name])
Delete(r, name) == [x \in {k \in DOMAIN r : Spelling[k] # name} |-> r[x]]

\* a row cleaned of the matched key alone, its variants left in
CleanedRow_matchedKeyOnly(r, missingCol) == Delete(r, missingCol)

\* one row of cleaned: copy = {...r}; delete copy[missingCol];
\* delete copy[camelToSnake(missingCol)]; delete copy[snakeToCamel(missingCol)]
CleanedRow(r, missingCol) ==
    Delete(Delete(Delete(r, missingCol), camelToSnake(missingCol)),
           snakeToCamel(missingCol))

\* const msg = resp.error.message || ''
ErrorMessage(r) == r.error[1].message

\* the first insert was rejected and the pattern finds a column: retry
Retries(r) == r.error # NoError /\ missingMatch(ErrorMessage(r)) # <<>>

\* const missingCol = missingMatch[1]
missingCol(r) == missingMatch(ErrorMessage(r))[1]

\* const cleaned = b.map(r => ...)
cleaned(b, col) == [k \in 1..Len(b) |-> CleanedRow(b[k], col)]

\* const batch = toInsert.slice(i, i + BATCH_SIZE)
batch == slice(toInsert, sp_i, sp_i + BATCH_SIZE)

\* the error is reported but the `return` is missing: the loop goes on
AfterTryInsert_noReturn(r) ==
    /\ resp' = <<r>>
    /\ sp_importError' = IF r.error # NoError
                         THEN InsertFailedText(r.error[1]) ELSE sp_importError
    /\ sp_i' = sp_i + BATCH_SIZE
    /\ sp_pc' = "loop"
    /\ UNCHANGED sp_importing

\* doImportSelectedSheet after `const resp = await tryInsert...(...)`:
\* on an error, report it and return (finally: setImporting(false));
\* otherwise go on with the next batch
AfterTryInsert(r) ==
    /\ resp' = <<r>>
    /\ IF r.error # NoError
       THEN /\ sp_importError' = InsertFailedText(r.error[1])
            /\ sp_importing' = FALSE
            /\ sp_pc' = "done"
            /\ sp_i' = sp_i
       ELSE /\ sp_i' = sp_i + BATCH_SIZE
            /\ sp_pc' = "loop"
            /\ UNCHANGED <<sp_importError, sp_importing>>

(***************************************************************************)
(* Spare-parts page: doImportSelectedSheet.                                *)
(***************************************************************************)
\* from the click to the batch loop: the guards and early returns
doImportSelectedSheet ==
    /\ page = "spare_parts"
    /\ sp_pc = "idle"
    /\ IF sp_selectedSheet = <<>>
       THEN /\ sp_importError' = TextNoSheet
            /\ sp_pc' = "done"
            /\ UNCHANGED sp_importing
       ELSE IF toInsert = <<>>
       THEN /\ sp_importError' = TextEmptySheet
            /\ sp_importing' = FALSE
            /\ sp_pc' = "done"
       ELSE /\ sp_importError' = <<>>
            /\ sp_importing' = TRUE
            /\ sp_pc' = "loop"
    /\ UNCHANGED <<tabVars, postVars, fileVars, apiVars, fnVars, storeVars, page, backendVars, invVars, sp_selectedSheet, sp_importModalOpen,
                   sp_alert, toInsert, sp_i, resp1, resp>>

\* the inserts are not awaited: the next batch is issued while the
\* previous insert is still in flight
SubmitBatch_notAwaited ==
    /\ page = "spare_parts"
    /\ \/ /\ sp_pc = "loop"
          /\ sp_i < Len(toInsert)
          /\ writes' = Append(writes, Write("spare_parts", batch, sp_i, 1))
          /\ UNCHANGED sp_i
       \/ /\ sp_pc = "await_insert"
          /\ sp_i + BATCH_SIZE < Len(toInsert)
          /\ sp_i' = sp_i + BATCH_SIZE
          /\ writes' = Append(writes,
                          Write("spare_parts",
                                slice(toInsert, sp_i', sp_i' + BATCH_SIZE), sp_i', 1))
    /\ resp1' = <<>>
    /\ resp' = <<>>
    /\ sp_pc' = "await_insert"
    /\ UNCHANGED <<tabVars, postVars, fileVars, apiVars, fnVars, storeVars, page, responses, invVars, sp_selectedSheet, sp_importModalOpen,
                   sp_importing, sp_importError, sp_alert, toInsert>>

\* loop head with i < toInsert.length: slice the batch, call tryInsert...,
\* whose first statement issues the insert and awaits it
SubmitBatch ==
    /\ page = "spare_parts"
    /\ sp_pc = "loop"
    /\ sp_i < Len(toInsert)
    /\ writes' = Append(writes, Write("spare_parts", batch, sp_i, 1))
    /\ resp1' = <<>>
    /\ resp' = <<>>
    /\ sp_pc' = "await_insert"
    /\ UNCHANGED <<tabVars, postVars, fileVars, apiVars, fnVars, storeVars, page, responses, invVars, sp_selectedSheet, sp_importModalOpen,
                   sp_importing, sp_importError, sp_alert, toInsert, sp_i>>

\* the first insert returns r
InsertReturns ==
    /\ page = "spare_parts"
    /\ sp_pc = "await_insert"
    /\ \E r \in Responses :
          /\ responses' = Append(responses, r)
          /\ resp1' = <<r>>
          /\ IF Retries(r)
             THEN /\ LET col == missingCol(r)
                     IN  writes' = Append(writes,
                                      Write("spare_parts", cleaned(batch, col), sp_i, 2))
                  /\ sp_pc' = "await_retry"
                  /\ UNCHANGED <<resp, sp_importError, sp_importing, sp_i>>
             ELSE /\ AfterTryInsert(r)
                  /\ UNCHANGED writes
    /\ UNCHANGED <<tabVars, postVars, fileVars, apiVars, fnVars, storeVars, page, invVars, sp_selectedSheet, sp_importModalOpen, sp_alert,
                   toInsert>>

\* `return resp` in the place of `return resp2`
RetryReturns_returnsResp ==
    /\ page = "spare_parts"
    /\ sp_pc = "await_retry"
    /\ \E r \in Responses :
          /\ responses' = Append(responses, r)
          /\ AfterTryInsert(resp1[1])
    /\ UNCHANGED <<tabVars, postVars, fileVars, apiVars, fnVars, storeVars, page, writes, invVars, sp_selectedSheet, sp_importModalOpen,
                   sp_alert, toInsert, resp1>>

\* a retry that failed for a missing column is retried in its turn
RetryReturns_retriesAgain ==
    /\ page = "spare_parts"
    /\ sp_pc = "await_retry"
    /\ \E r \in Responses :
          /\ responses' = Append(responses, r)
          /\ IF Retries(r)
             THEN /\ writes' = Append(writes,
                                  Write("spare_parts",
                                        cleaned(writes[Len(writes)].rows, missingCol(r)),
                                        sp_i, 2))
                  /\ UNCHANGED <<resp, sp_importError, sp_importing, sp_i, sp_pc>>
             ELSE /\ AfterTryInsert(r)
                  /\ UNCHANGED writes
    /\ UNCHANGED <<tabVars, postVars, fileVars, apiVars, fnVars, storeVars, page, invVars, sp_selectedSheet, sp_importModalOpen,
                   sp_alert, toInsert, resp1>>

\* the retry returns r: `return resp2`
RetryReturns ==
    /\ page = "spare_parts"
    /\ sp_pc = "await_retry"
    /\ \E r \in Responses :
          /\ responses' = Append(responses, r)
          /\ AfterTryInsert(r)
    /\ UNCHANGED <<tabVars, postVars, fileVars, apiVars, fnVars, storeVars, page, writes, invVars, sp_selectedSheet, sp_importModalOpen,
                   sp_alert, toInsert, resp1>>

\* loop exit: refresh, close the modal, alert
FinishImport ==
    /\ page = "spare_parts"
    /\ sp_pc = "loop"
    /\ sp_i >= Len(toInsert)
    /\ sp_importModalOpen' = FALSE
    /\ sp_selectedSheet' = <<>>
    /\ sp_alert' = <<Len(toInsert)>>
    /\ sp_importing' = FALSE
    /\ sp_pc' = "done"
    /\ UNCHANGED <<tabVars, postVars, fileVars, apiVars, fnVars, storeVars, page, backendVars, invVars, sp_importError, toInsert, sp_i,
                   resp1, resp>>

(***************************************************************************)
(* Inventory page: importSelectedSheet.                                    *)
(***************************************************************************)
\* from the click to the batch loop: the guards and early returns
importSelectedSheet ==
    /\ page = "inventory"
    /\ inv_pc = "idle"
    /\ inv_importMessage' = <<>>
    /\ IF inv_selectedSheet = <<>>
       THEN /\ inv_importError' = TextNoSheetOrWorkbook
            /\ inv_pc' = "done"
            /\ UNCHANGED <<inv_importing, upserted>>
       ELSE IF payloads = <<>>
       THEN /\ inv_importError' = TextEmptySheet
            /\ inv_importing' = FALSE
            /\ inv_pc' = "done"
            /\ UNCHANGED upserted
       ELSE /\ inv_importError' = <<>>
            /\ inv_importing' = TRUE
            /\ upserted' = 0
            /\ inv_pc' = "loop"
    /\ UNCHANGED <<tabVars, postVars, fileVars, apiVars, fnVars, storeVars, page, backendVars, spVars, inv_selectedSheet, payloads, inv_i>>

\* loop head with i < payloads.length: slice the chunk, issue the upsert, await it
SubmitChunk ==
    /\ page = "inventory"
    /\ inv_pc = "loop"
    /\ inv_i < Len(payloads)
    /\ writes' = Append(writes,
                    Write("inventory_items", slice(payloads, inv_i, inv_i + batchSize),
                          inv_i, 1))
    /\ inv_pc' = "await_upsert"
    /\ UNCHANGED <<tabVars, postVars, fileVars, apiVars, fnVars, storeVars, page, responses, spVars, inv_selectedSheet, inv_importing,
                   inv_importError, inv_importMessage, payloads, inv_i, upserted>>

\* upserted after the chunk's upsert returned r: if (!error) upserted += chunk.length
Upserted(r, n) == IF r.error = NoError THEN upserted + n ELSE upserted

\* the upsert returns r; then i += batchSize
UpsertReturns ==
    /\ page = "inventory"
    /\ inv_pc = "await_upsert"
    /\ \E r \in Responses :
          /\ responses' = Append(responses, r)
          /\ upserted' = Upserted(r, Len(writes[Len(writes)].rows))
    /\ inv_i' = inv_i + batchSize
    /\ inv_pc' = "loop"
    /\ UNCHANGED <<tabVars, postVars, fileVars, apiVars, fnVars, storeVars, page, writes, spVars, inv_selectedSheet, inv_importing,
                   inv_importError, inv_importMessage, payloads>>

\* loop exit: setImportMessage, forget the workbook, reload (finally:
\* setImporting(false))
FinishInventoryImport ==
    /\ page = "inventory"
    /\ inv_pc = "loop"
    /\ inv_i >= Len(payloads)
    /\ inv_importMessage' = <<upserted>>
    /\ inv_selectedSheet' = <<>>
    /\ inv_importing' = FALSE
    /\ inv_pc' = "done"
    /\ UNCHANGED <<tabVars, postVars, fileVars, apiVars, fnVars, storeVars, page, backendVars, spVars, inv_importError, payloads, inv_i,
                   upserted>>

(***************************************************************************)
(* The imports' specification.                                             *)
(***************************************************************************)
vars == <<importVars, storeVars, fnVars, fileVars, apiVars, postVars, tabVars>>

Init == ImportInit /\ StoreInit /\ NoCallInit /\ NoFileInit /\ NoPostInit /\ NoTabInit /\ NoApiInit

Next ==
    \/ doImportSelectedSheet
    \/ SubmitBatch
    \/ InsertReturns
    \/ RetryReturns
    \/ FinishImport
    \/ importSelectedSheet
    \/ SubmitChunk
    \/ UpsertReturns
    \/ FinishInventoryImport

Spec == Init /\ [][Next]_vars

(***************************************************************************)
(* Warehouses page: the browser stores and FileUploader.handleFile.        *)
(***************************************************************************)
\* MaxImports workbooks are imported, one after the other
MaxImports == 2

Undefined == [t |-> "undefined"]

NaN == [t |-> "nan"]

Digits == {"0","1","2","3","4","5","6","7","8","9"}

\* [a-z0-9]
IsAlnum(c) == IsLower(c) \/ c \in Digits

\* k.toLowerCase().replace(/\s+/g, ''), without the second replace
tolerant_whitespaceOnly(k) == SelectSeq(LowerSeq(k), LAMBDA c : ~IsSpace(c))

\* k?.toLowerCase().replace(/\s+/g, '').replace(/[^a-z0-9]/g, '')
tolerant(k) == SelectSeq(LowerSeq(k), IsAlnum)

\* the keys the row mappers look up in `mapped`
Alias ==
    [ warehouseid |-> <<"w","a","r","e","h","o","u","s","e","i","d">>,
      id |-> <<"i","d">>,
      warehousename |-> <<"w","a","r","e","h","o","u","s","e","n","a","m","e">>,
      name |-> <<"n","a","m","e">>,
      warehouse |-> <<"w","a","r","e","h","o","u","s","e">>,
      location |-> <<"l","o","c","a","t","i","o","n">>,
      district |-> <<"d","i","s","t","r","i","c","t">>,
      address |-> <<"a","d","d","r","e","s","s">>,
      manager |-> <<"m","a","n","a","g","e","r">>,
      contact_phone |-> <<"c","o","n","t","a","c","t","_","p","h","o","n","e">>,
      phone |-> <<"p","h","o","n","e">>,
      stockonhand |-> <<"s","t","o","c","k","o","n","h","a","n","d">>,
      qty |-> <<"q","t","y">>,
      quantity |-> <<"q","u","a","n","t","i","t","y">>,
      unitcost |-> <<"u","n","i","t","c","o","s","t">>,
      rate |-> <<"r","a","t","e">>,
      unitprice |-> <<"u","n","i","t","p","r","i","c","e">>,
      item_id |-> <<"i","t","e","m","_","i","d">>,
      itemid |-> <<"i","t","e","m","i","d">>,
      sku |-> <<"s","k","u">>,
      item_name |-> <<"i","t","e","m","_","n","a","m","e">>,
      itemname |-> <<"i","t","e","m","n","a","m","e">>,
      category |-> <<"c","a","t","e","g","o","r","y">>,
      warehouse_id |-> <<"w","a","r","e","h","o","u","s","e","_","i","d">>,
      rackid |-> <<"r","a","c","k","i","d">>,
      rack_id |-> <<"r","a","c","k","_","i","d">>,
      rack |-> <<"r","a","c","k">>,
      reorderlevel |-> <<"r","e","o","r","d","e","r","l","e","v","e","l">>,
      reorder_threshold |-> <<"r","e","o","r","d","e","r","_","t","h","r","e","s","h","o","l","d">>,
      rackname |-> <<"r","a","c","k","n","a","m","e">>,
      capacity |-> <<"c","a","p","a","c","i","t","y">>,
      rateinr |-> <<"r","a","t","e","i","n","r">>,
      mrp |-> <<"m","r","p">>,
      spareparts_id |-> <<"s","p","a","r","e","p","a","r","t","s","_","i","d">>,
      description |-> <<"d","e","s","c","r","i","p","t","i","o","n">>,
      rate_rupee |-> <<"r","a","t","e","₹">>,
      mrp_rupee |-> <<"m","r","p","₹">> ]

\* column headers of the imported sheets
Header ==
    [ ItemID |-> <<"I","t","e","m"," ","I","D">>,
      ItemName |-> <<"I","t","e","m"," ","N","a","m","e">>,
      Category |-> <<"C","a","t","e","g","o","r","y">>,
      WarehouseID |-> <<"W","a","r","e","h","o","u","s","e"," ","I","D">>,
      RackID |-> <<"R","a","c","k"," ","I","D">>,
      StockOnHand |-> <<"S","t","o","c","k"," ","O","n"," ","H","a","n","d">>,
      ReorderLevel |-> <<"R","e","o","r","d","e","r"," ","L","e","v","e","l">>,
      UnitCost |-> <<"U","n","i","t"," ","C","o","s","t">>,
      WarehouseName |-> <<"W","a","r","e","h","o","u","s","e"," ","N","a","m","e">>,
      Location |-> <<"L","o","c","a","t","i","o","n">>,
      Phone |-> <<"P","h","o","n","e">>,
      RackName |-> <<"R","a","c","k"," ","N","a","m","e">>,
      Capacity |-> <<"C","a","p","a","c","i","t","y">>,
      SparePartsID |-> <<"S","p","a","r","e","P","a","r","t","s","_","I","D">>,
      Rate |-> <<"R","a","t","e"," ","(","₹",")">>,
      MRP |-> <<"M","R","P">>,
      sku |-> <<"s","k","u">>,
      Qty |-> <<"Q","t","y">> ]

\* sheet names
SheetName ==
    [ Inventory |-> <<"I","n","v","e","n","t","o","r","y">>,
      Warehouses |-> <<"W","a","r","e","h","o","u","s","e","s">>,
      Racks |-> <<"R","a","c","k","s">>,
      SpareParts |-> <<"S","p","a","r","e"," ","P","a","r","t","s">>,
      Sheet1 |-> <<"S","h","e","e","t","1">> ]

\* the words handleFile looks for in a sheet's name
Needle ==
    [ warehouse |-> <<"w","a","r","e","h","o","u","s","e">>,
      inventory |-> <<"i","n","v","e","n","t","o","r","y">>,
      rack |-> <<"r","a","c","k">>,
      spare |-> <<"s","p","a","r","e">> ]

\* String.prototype.includes
Includes(str, sub) ==
    \E q \in 1..(Len(str) - Len(sub) + 1) : SubSeq(str, q, q + Len(sub) - 1) = sub

\* JavaScript's truthiness, ||, ?? on the values of the model
Truthy(v) ==
    /\ v \notin {Undefined, Null, NaN}
    /\ v.t = "str" => v.s # ""
    /\ v.t = "num" => v.n # 0

OrV(a, b) == IF Truthy(a) THEN a ELSE b

Nullish(a, b) == IF a \in {Undefined, Null} THEN b ELSE a

\* Number(v); the text cells of the model hold no digits
NumberV(v) ==
    IF v.t = "num" THEN v
    ELSE IF v = Str("") THEN Num(0)
    ELSE NaN

\* v.toString()
toStringV(v) == IF v.t = "num" THEN Str(ToString(v.n)) ELSE v

\* uid(prefix): `${prefix}-${Date.now()...}-${random}`, the n-th fresh one
uid(prefix, n) == Str(prefix \o "-" \o ToString(n))

\* new Date().toISOString() at clock reading n
ISOString(n) == Str("T" \o ToString(n))

\* A row of sheet_to_json is a sequence of <<header, cell>> in column order.
\* for (const k of Object.keys(row)) mapped[tolerant(k)] = row[k], from column n on
RECURSIVE mappedFrom(_, _, _)
mappedFrom(row, n, m) ==
    IF n > Len(row) THEN m
    ELSE LET key == tolerant(row[n][1])
         IN  mappedFrom(row, n + 1,
                        [x \in DOMAIN m \cup {key} |-> IF x = key THEN row[n][2] ELSE m[x]])

mapped(row) == mappedFrom(row, 1, <<>>)

\* mapped[key], undefined when there is no such key
Get(m, key) == IF key \in DOMAIN m THEN m[key] ELSE Undefined

mapWarehouseRow(row, fresh, now) ==
    LET m == mapped(row)
    IN  [ id |-> toStringV(OrV(OrV(Get(m, Alias.warehouseid), Get(m, Alias.id)),
                               uid("W", fresh))),
          name |-> toStringV(OrV(OrV(OrV(Get(m, Alias.warehousename), Get(m, Alias.name)),
                                     Get(m, Alias.warehouse)), Str(""))),
          district |-> toStringV(OrV(OrV(Get(m, Alias.location), Get(m, Alias.district)),
                                     Str(""))),
          address |-> toStringV(OrV(Get(m, Alias.address), Str(""))),
          manager |-> toStringV(OrV(Get(m, Alias.manager), Str(""))),
          contact_phone |-> toStringV(OrV(OrV(Get(m, Alias.contact_phone),
                                              Get(m, Alias.phone)), Str(""))),
          createdAt |-> ISOString(now) ]

mapInventoryRow(row, fresh) ==
    LET m == mapped(row)
    IN  [ sku |-> toStringV(OrV(OrV(OrV(Get(m, Alias.item_id), Get(m, Alias.itemid)),
                                    Get(m, Alias.sku)), uid("sku", fresh))),
          name |-> toStringV(OrV(OrV(OrV(Get(m, Alias.item_name), Get(m, Alias.name)),
                                     Get(m, Alias.itemname)), Str(""))),
          category |-> toStringV(OrV(Get(m, Alias.category), Str(""))),
          warehouseId |->
              OrV(toStringV(OrV(OrV(OrV(Get(m, Alias.warehouseid),
                                        Get(m, Alias.warehouse_id)),
                                    Get(m, Alias.warehouse)), Str(""))), Undefined),
          rackId |->
              OrV(toStringV(OrV(OrV(OrV(Get(m, Alias.rackid), Get(m, Alias.rack_id)),
                                    Get(m, Alias.rack)), Str(""))), Undefined),
          qty |-> OrV(NumberV(Nullish(Nullish(Nullish(Get(m, Alias.stockonhand),
                                                      Get(m, Alias.qty)),
                                              Get(m, Alias.quantity)), Num(0))), Num(0)),
          reorderThreshold |->
              OrV(NumberV(Nullish(Nullish(Get(m, Alias.reorderlevel),
                                          Get(m, Alias.reorder_threshold)), Num(0))),
                  Num(0)),
          unitPrice |-> OrV(NumberV(Nullish(Nullish(Nullish(Get(m, Alias.unitcost),
                                                            Get(m, Alias.rate)),
                                                    Get(m, Alias.unitprice)), Num(0))),
                            Num(0)) ]

mapRackRow(row, fresh) ==
    LET m == mapped(row)
    IN  [ id |-> toStringV(OrV(OrV(OrV(Get(m, Alias.rackid), Get(m, Alias.rack_id)),
                                   Get(m, Alias.id)), uid("rack", fresh))),
          warehouseId |->
              OrV(toStringV(OrV(OrV(OrV(Get(m, Alias.warehouseid),
                                        Get(m, Alias.warehouse_id)),
                                    Get(m, Alias.warehouse)), Str(""))), Undefined),
          name |-> toStringV(OrV(OrV(Get(m, Alias.rackname), Get(m, Alias.name)), Str(""))),
          itemName |-> toStringV(OrV(OrV(Get(m, Alias.itemname), Get(m, Alias.item_name)),
                                     Str(""))),
          capacity |-> OrV(NumberV(Nullish(Get(m, Alias.capacity), Num(0))), Undefined) ]

mapSpareRow(row, fresh) ==
    LET m == mapped(row)
    IN  [ id |-> toStringV(OrV(OrV(Get(m, Alias.spareparts_id), Get(m, Alias.id)),
                               uid("sp", fresh))),
          name |-> toStringV(OrV(OrV(Get(m, Alias.item_name), Get(m, Alias.name)), Str(""))),
          description |-> toStringV(OrV(Get(m, Alias.description), Str(""))),
          rate |-> OrV(NumberV(OrV(OrV(OrV(Get(m, Alias.rate), Get(m, Alias.rate_rupee)),
                                       Get(m, Alias.rateinr)), Num(0))), Num(0)),
          mrp |-> OrV(NumberV(OrV(OrV(Get(m, Alias.mrp), Get(m, Alias.mrp_rupee)), Num(0))),
                      Num(0)),
          warehouseId |->
              OrV(toStringV(OrV(OrV(Get(m, Alias.warehouseid), Get(m, Alias.warehouse_id)),
                                Str(""))), Undefined) ]

\* which list handleFile pushes a sheet's rows to ("" for none): by the
\* sheet's name, else by the columns of its first row
SheetKind(sheet) ==
    LET key  == LowerSeq(sheet.name)
        cols == IF sheet.rows = <<>> THEN {}
                ELSE { tolerant(sheet.rows[1][c][1]) : c \in DOMAIN sheet.rows[1] }
    IN  IF Includes(key, Needle.warehouse) THEN "warehouses"
        ELSE IF Includes(key, Needle.inventory) THEN "inventory"
        ELSE IF Includes(key, Needle.rack) THEN "racks"
        ELSE IF Includes(key, Needle.spare) THEN "spareParts"
        ELSE IF Alias.warehouseid \in cols /\ Alias.warehousename \in cols
             THEN "warehouses"
        ELSE IF Alias.stockonhand \in cols \/ Alias.unitcost \in cols THEN "inventory"
        ELSE IF Alias.rackid \in cols THEN "racks"
        ELSE IF Alias.spareparts_id \in cols \/ Alias.rate \in cols THEN "spareParts"
        ELSE ""

(***************************************************************************)
(* Objects, JSON and Map.                                                  *)
(***************************************************************************)
\* { ...a, ...b }: b's own properties win, undefined ones included
Spread(a, b) ==
    [x \in DOMAIN a \cup DOMAIN b |-> IF x \in DOMAIN b THEN b[x] ELSE a[x]]

\* JSON.parse(JSON.stringify(o)): properties whose value is undefined are dropped
JSONObject(o) == [x \in { y \in DOMAIN o : o[y] # Undefined } |-> o[x]]

JSONArray(rows) == [k \in DOMAIN rows |-> JSONObject(rows[k])]

\* read<T>(key)
read(store, key) == store[key]

\* write(key, rows): localStorage.setItem(key, JSON.stringify(rows))
write(store, key, rows) == [store EXCEPT ![key] = JSONArray(rows)]

\* A Map is the sequence of its entries [k, v] in insertion order.
MapHas(m, k) == \E e \in DOMAIN m : m[e].k = k

\* Map.prototype.get; an object without properties stands for undefined
MapGet(m, k) ==
    IF MapHas(m, k) THEN m[CHOOSE e \in DOMAIN m : m[e].k = k].v ELSE <<>>

\* a set that never finds the key
MapSet_appends(m, k, v) == Append(m, [k |-> k, v |-> v])

\* Map.prototype.set: an existing key keeps its place
MapSet(m, k, v) ==
    IF MapHas(m, k)
    THEN [e \in DOMAIN m |-> IF m[e].k = k THEN [k |-> k, v |-> v] ELSE m[e]]
    ELSE Append(m, [k |-> k, v |-> v])

\* Array.from(m.values())
MapValues(m) == [e \in DOMAIN m |-> m[e].v]

\* the key of a warehouse, rack or spare part: its id
IdKey(e) == e.id.s

\* `${e.sku}::${e.warehouseId||''}`
InventoryKey(e) ==
    e.sku.s \o "::" \o (IF "warehouseId" \in DOMAIN e /\ Truthy(e.warehouseId)
                        THEN e.warehouseId.s ELSE "")

\* new Map(existing.map(e => [key(e), e])), from element n on
RECURSIVE MapOfIds(_, _, _)
MapOfIds(existing, n, m) ==
    IF n > Len(existing) THEN m
    ELSE MapOfIds(existing, n + 1, MapSet(m, IdKey(existing[n]), existing[n]))

RECURSIVE MapOfInventory(_, _, _)
MapOfInventory(existing, n, m) ==
    IF n > Len(existing) THEN m
    ELSE MapOfInventory(existing, n + 1, MapSet(m, InventoryKey(existing[n]), existing[n]))

\* for (const w of list) byId.set(w.id, { ...byId.get(w.id), ...w }), from n on
RECURSIVE MergeById(_, _, _)
MergeById(byId, list, n) ==
    IF n > Len(list) THEN byId
    ELSE MergeById(MapSet(byId, IdKey(list[n]),
                          Spread(MapGet(byId, IdKey(list[n])), list[n])),
                   list, n + 1)

\* what one inventory item is stored as: if (prev) { ...prev, ...it } else it
MergedItem(byKey, it) ==
    IF MapHas(byKey, InventoryKey(it))
    THEN Spread(MapGet(byKey, InventoryKey(it)), it)
    ELSE it

\* for (const it of inventory) byKey.set(k, ...), from n on
RECURSIVE MergeInventory(_, _, _)
MergeInventory(byKey, list, n) ==
    IF n > Len(list) THEN byKey
    ELSE MergeInventory(MapSet(byKey, InventoryKey(list[n]), MergedItem(byKey, list[n])),
                        list, n + 1)

\* the merges that loop makes onto an already staged record, each as
\* [prev, cells, it, result]: cells is the incoming row as the mapper reads
\* it, result is the record as it is stored
RECURSIVE InventoryMerges(_, _, _, _)
InventoryMerges(byKey, rows, list, n) ==
    IF n > Len(list) THEN <<>>
    ELSE (IF MapHas(byKey, InventoryKey(list[n]))
          THEN << [ prev |-> MapGet(byKey, InventoryKey(list[n])),
                    cells |-> mapped(rows[n].row),
                    it |-> list[n],
                    result |-> JSONObject(MergedItem(byKey, list[n])) ] >>
          ELSE <<>>)
         \o InventoryMerges(MapSet(byKey, InventoryKey(list[n]),
                                   MergedItem(byKey, list[n])), rows, list, n + 1)

(***************************************************************************)
(* Workbooks a user may pick.  A workbook is the sequence of its sheets,   *)
(* a sheet is [name, rows], a row is a sequence of <<header, cell>>; a     *)
(* blank cell reads '' (sheet_to_json with defval ''), a column the sheet  *)
(* does not have is no pair at all.                                        *)
(***************************************************************************)
Cells(headers, cells) == [c \in DOMAIN headers |-> <<headers[c], cells[c]>>]

InventoryRow(sku, wid, rack, qty, price) ==
    Cells(<<Header.ItemID, Header.ItemName, Header.Category, Header.WarehouseID,
            Header.RackID, Header.StockOnHand, Header.ReorderLevel, Header.UnitCost>>,
          <<sku, Str("Bolt"), Str(""), wid, rack, qty, Str(""), price>>)

\* an inventory sheet without the Rack ID and Unit Cost columns
ShortInventoryRow(sku, wid, qty) ==
    Cells(<<Header.sku, Header.WarehouseID, Header.Qty>>, <<sku, wid, qty>>)

InventoryBooks ==
    { << [name |-> SheetName.Inventory,
          rows |-> << InventoryRow(Str("SKU-1"), wid, rack, qty, price) >>] >> :
        wid \in {Str("W1")}, rack \in {Str("R1"), Str("")},
        qty \in {Num(5), Str("")}, price \in {Num(7), Str("")} }

OtherBooks ==
    { \* the same key twice in one sheet, the second row without rack and cost
      << [name |-> SheetName.Inventory,
          rows |-> << InventoryRow(Str("SKU-1"), Str("W1"), Str("R1"), Num(3), Num(7)),
                      ShortInventoryRow(Str("SKU-1"), Str("W1"), Num(5)) >>] >>,
      \* a row without a warehouse
      << [name |-> SheetName.Inventory,
          rows |-> << InventoryRow(Str("SKU-1"), Str(""), Str("R1"), Num(3), Str("")) >>] >>,
      \* a sheet recognised by its columns, with a row that has no identifier
      << [name |-> SheetName.Sheet1,
          rows |-> << InventoryRow(Str(""), Str("W1"), Str(""), Num(5), Num(7)) >>] >>,
      << [name |-> SheetName.Sheet1,
          rows |-> << ShortInventoryRow(Str("SKU-1"), Str("W1"), Num(5)) >>] >>,
      << [name |-> SheetName.Warehouses,
          rows |-> << Cells(<<Header.WarehouseID, Header.WarehouseName, Header.Location>>,
                            <<Str("W1"), Str("Main"), Str("")>>),
                      \* a warehouse without an identifier
                      Cells(<<Header.WarehouseID, Header.WarehouseName, Header.Location>>,
                            <<Str(""), Str("Yard"), Str("")>>) >>],
         [name |-> SheetName.Racks,
          rows |-> << Cells(<<Header.RackID, Header.RackName, Header.WarehouseID,
                              Header.Capacity>>,
                            <<Str("R1"), Str("A"), Str("W1"), Num(4)>>) >>] >>,
      << [name |-> SheetName.Warehouses,
          rows |-> << Cells(<<Header.WarehouseID, Header.WarehouseName, Header.Phone>>,
                            <<Str("W1"), Str(""), Str("")>>) >>] >>,
      << [name |-> SheetName.SpareParts,
          rows |-> << Cells(<<Header.SparePartsID, Header.ItemName, Header.Rate,
                              Header.MRP>>,
                            <<Str("P1"), Str("Belt"), Num(2), Str("")>>) >>] >>,
      \* a workbook with one empty sheet
      << [name |-> SheetName.Sheet1, rows |-> <<>>] >> }

\* a file is [ok, sheets]: ok is whether XLSX.read can read it
Unparseable == [ok |-> FALSE, sheets |-> <<>>]

Files == {[ok |-> TRUE, sheets |-> wb] : wb \in InventoryBooks \cup OtherBooks}
             \cup {Unparseable}

(***************************************************************************)
(* FileUploader.handleFile.                                                *)
(***************************************************************************)
\* the rows of the sheets from sheet n on, in workbook order, each with the
\* list its sheet goes to
RECURSIVE SheetRows(_, _)
SheetRows(wb, n) ==
    IF n > Len(wb) THEN <<>>
    ELSE [r \in DOMAIN wb[n].rows |-> [kind |-> SheetKind(wb[n]), row |-> wb[n].rows[r]]]
         \o SheetRows(wb, n + 1)

\* for (const r of json) list.push(mapRow(r)), over the rows from n on that go
\* to the list; the fresh-th call of uid() is the next one
RECURSIVE PushWarehouses(_, _, _, _, _)
PushWarehouses(all, n, fresh, now, list) ==
    IF n > Len(all) THEN list
    ELSE PushWarehouses(all, n + 1, fresh, now,
             IF all[n].kind = "warehouses"
             THEN Append(list, mapWarehouseRow(all[n].row, fresh + n, now)) ELSE list)

RECURSIVE PushInventory(_, _, _, _)
PushInventory(all, n, fresh, list) ==
    IF n > Len(all) THEN list
    ELSE PushInventory(all, n + 1, fresh,
             IF all[n].kind = "inventory"
             THEN Append(list, mapInventoryRow(all[n].row, fresh + n)) ELSE list)

RECURSIVE PushRacks(_, _, _, _)
PushRacks(all, n, fresh, list) ==
    IF n > Len(all) THEN list
    ELSE PushRacks(all, n + 1, fresh,
             IF all[n].kind = "racks"
             THEN Append(list, mapRackRow(all[n].row, fresh + n)) ELSE list)

RECURSIVE PushSpareParts(_, _, _, _)
PushSpareParts(all, n, fresh, list) ==
    IF n > Len(all) THEN list
    ELSE PushSpareParts(all, n + 1, fresh,
             IF all[n].kind = "spareParts"
             THEN Append(list, mapSpareRow(all[n].row, fresh + n)) ELSE list)

\* if (list.length) { ...merge by id...; write(key, Array.from(byId.values())) }
MergedById(store, key, list) ==
    IF list = <<>> THEN store
    ELSE write(store, key, MapValues(MergeById(MapOfIds(read(store, key), 1, <<>>), list, 1)))

MergedInventory(store, list) ==
    IF list = <<>> THEN store
    ELSE write(store, KEY_INVENTORY,
               MapValues(MergeInventory(
                   MapOfInventory(read(store, KEY_INVENTORY), 1, <<>>), list, 1)))

\* the storage events a run of posts raises in another tab when the channel
\* is the localStorage item: setItem raises none when the value it stores,
\* JSON.stringify({ m, t: Date.now() }), is the value the item already has
RECURSIVE StorageEvents(_, _, _, _, _)
StorageEvents(msgs, n, item, sameMs, out) ==
    IF n > Len(msgs) THEN out
    ELSE StorageEvents(msgs, n + 1, <<msgs[n]>>, sameMs,
                       IF sameMs /\ item = <<msgs[n]>> THEN out ELSE Append(out, msgs[n]))

\* broadcaster.post(m) for each m of msgs, in one run of the page's code; item
\* is what the fallback item holds if it was stored within this run, else <<>>
Broadcast(msgs, item) ==
    /\ posted' = posted \o msgs
    /\ IF bc_supported
       THEN \* bc.postMessage(m): every listener of the other tabs gets m
            /\ inbox' = IF tab_mounted THEN inbox \o msgs ELSE inbox
            /\ UNCHANGED channelItem
       ELSE \* localStorage.setItem(`__${CHANNEL_NAME}`, ...); the posts of the run
            \* fall into one millisecond or they do not
            /\ \E sameMs \in BOOLEAN :
                  inbox' = IF tab_mounted
                           THEN inbox \o StorageEvents(msgs, 1, item, sameMs, <<>>)
                           ELSE inbox
            /\ channelItem' = IF msgs = <<>> THEN channelItem ELSE <<msgs[Len(msgs)]>>

handleFile(file) ==
    /\ page = "warehouses"
    /\ clear_pc = 0
    /\ lastOp' = [name |-> "handleFile"]
    /\ UNCHANGED <<bc_supported, tab_shown, tab_mounted, clear_pc, mounted>>
    /\ clock < MaxImports
    /\ files' = Append(files, file)
    /\ UNCHANGED apiVars
    /\ clock' = clock + 1
    /\ IF ~file.ok
       THEN /\ fu_message' = <<>>
            /\ fu_errors' = TextParseFailed
            /\ UNCHANGED <<localStorage, posted, shown, uidCount, merges>>
            /\ UNCHANGED <<inbox, channelItem>>
       ELSE LET all == SheetRows(file.sheets, 1)
                warehouses == PushWarehouses(all, 1, uidCount, clock, <<>>)
                inventory  == PushInventory(all, 1, uidCount, <<>>)
                racks      == PushRacks(all, 1, uidCount, <<>>)
                spareParts == PushSpareParts(all, 1, uidCount, <<>>)
                s1 == MergedById(localStorage, KEY_WAREHOUSES, warehouses)
                s2 == MergedInventory(s1, inventory)
                s3 == MergedById(s2, KEY_RACKS, racks)
                s4 == MergedById(s3, KEY_SPAREPARTS, spareParts)
                wrote(list) == IF list = <<>> THEN 0 ELSE 1
                reloads == [k \in 1..(wrote(warehouses) + wrote(inventory)
                                      + wrote(racks) + wrote(spareParts))
                              |-> [type |-> "reload"]]
                counts == [warehouses |-> Len(warehouses), inventory |-> Len(inventory),
                           racks |-> Len(racks), spareParts |-> Len(spareParts)]
            IN  /\ localStorage' = s4
                /\ merges' = InventoryMerges(
                                 MapOfInventory(read(s1, KEY_INVENTORY), 1, <<>>),
                                 SelectSeq(all, LAMBDA e : e.kind = "inventory"),
                                 inventory, 1)
                /\ uidCount' = uidCount + Len(all)
                /\ fu_message' = <<counts>>
                /\ fu_errors' = <<>>
                /\ Broadcast(reloads \o <<[type |-> "imported", payload |-> counts]>>, <<>>)
                \* onImported: WarehousesPage.loadAll
                /\ shown' = s4
    /\ UNCHANGED <<importVars, fnVars, postVars>>

\* the import pages at rest, while the warehouses page is in use
ImportIdle ==
    /\ page = "warehouses"
    /\ writes = <<>>
    /\ responses = <<>>
    /\ sp_selectedSheet = <<>>
    /\ inv_selectedSheet = <<>>
    /\ sp_importModalOpen = FALSE
    /\ sp_importing = FALSE
    /\ sp_importError = <<>>
    /\ sp_alert = <<>>
    /\ toInsert = <<>>
    /\ payloads = <<>>
    /\ sp_i = 0
    /\ sp_pc = "idle"
    /\ resp1 = <<>>
    /\ resp = <<>>
    /\ inv_importing = FALSE
    /\ inv_importError = <<>>
    /\ inv_importMessage = <<>>
    /\ inv_i = 0
    /\ inv_pc = "idle"
    /\ upserted = 0

StoreSpecInit == ImportIdle /\ StoreInit /\ NoCallInit /\ NoFileInit /\ NoPostInit /\ NoTabInit /\ NoApiInit

ImportWorkbook == \E file \in Files : handleFile(file)

StoreNext == ImportWorkbook

StoreSpec == StoreSpecInit /\ [][StoreNext]_vars

(***************************************************************************)
(* Reading the backend's log.                                              *)
(***************************************************************************)
\* the batch size and the prepared rows of the running import
K == IF page = "spare_parts" THEN BATCH_SIZE ELSE batchSize

Rows == IF page = "spare_parts" THEN toInsert ELSE payloads

\* the writes issued for the batch that starts at row offset at
WritesAt(at) == { k \in DOMAIN writes : writes[k].at = at }

Answered(k) == k <= Len(responses)

Failed(k) == Answered(k) /\ responses[k].error # NoError

Succeeded(k) == Answered(k) /\ responses[k].error = NoError

\* the last write issued for the batch at offset at (0 when none)
LastWriteAt(at) ==
    IF WritesAt(at) = {} THEN 0
    ELSE CHOOSE k \in WritesAt(at) : \A j \in WritesAt(at) : j <= k

\* the state of the batch at offset at in the spare-parts import
BatchState(at) ==
    LET k == LastWriteAt(at)
    IN  IF k = 0 THEN "Pending"
        ELSE IF writes[k].attempt = 1
        THEN IF ~Answered(k) THEN "Submitted"
             ELSE IF Succeeded(k) THEN "Success"
             ELSE IF Retries(responses[k]) THEN "SchemaError"
             ELSE "Failed"
        ELSE IF ~Answered(k) THEN "Retried"
             ELSE IF Succeeded(k) THEN "Success"
             ELSE "Failed"

\* the offsets at which the running import has batches
Offsets == { at \in 0..Len(Rows) : at % K = 0 /\ at < Len(Rows) }

\* the rows of the writes k..Len(writes), one after the other
RECURSIVE SubmittedRows(_)
SubmittedRows(k) ==
    IF k > Len(writes) THEN <<>> ELSE writes[k].rows \o SubmittedRows(k + 1)

\* the least number of batches of size K that hold n rows
CeilDiv(n, d) == (n + d - 1) \div d

(***************************************************************************)
(* C1.  Workbook import, merge of an incoming inventory record B onto the  *)
(* staged record A with the same key: for every field, the stored result   *)
(* has B's value where B's is neither null, absent nor blank, and A's      *)
(* value where B's is; and a row that supplies no unit price leaves the    *)
(* staged unit price as it was.                                            *)
(***************************************************************************)
C1_Blank(v) == v \in {Undefined, Null, Str("")}

C1_Field(o, f) == IF f \in DOMAIN o THEN o[f] ELSE Undefined

C1_NoUnitPrice(cells) ==
    \A a \in {Alias.unitcost, Alias.rate, Alias.unitprice} : C1_Blank(Get(cells, a))

C1_MergeKeepsStagedValues ==
    \A k \in DOMAIN merges :
        LET g == merges[k]
        IN  /\ \A f \in DOMAIN g.prev \cup DOMAIN g.it :
                  C1_Field(g.result, f) =
                      IF C1_Blank(C1_Field(g.it, f)) THEN C1_Field(g.prev, f)
                      ELSE C1_Field(g.it, f)
            /\ C1_NoUnitPrice(g.cells) =>
                  C1_Field(g.result, "unitPrice") = C1_Field(g.prev, "unitPrice")

(***************************************************************************)
(* C2.  Inventory import: every batch is written as submitted, or written  *)
(* after exactly one retry with the offending column stripped, or its      *)
(* failure is reported in importError; an import that is over never has a  *)
(* batch whose upsert failed and was passed over in silence.               *)
(***************************************************************************)
C2_FailedChunkReported ==
    (page = "inventory" /\ inv_pc = "done") =>
        \A at \in Offsets :
            \/ Cardinality(WritesAt(at)) = 1 /\ Succeeded(LastWriteAt(at))
            \/ /\ Cardinality(WritesAt(at)) = 2
               /\ writes[LastWriteAt(at)].attempt = 2
               /\ Succeeded(LastWriteAt(at))
            \/ inv_importError # <<>>

(***************************************************************************)
(* C3.  Spare-parts import: once tryInsertWithMissingColumnRecovery has    *)
(* returned an error for a batch, the import has halted: no later batch    *)
(* is submitted, importError holds the failure message, the modal is       *)
(* still open and no success message was shown.                            *)
(***************************************************************************)
C3_FailedBatchHaltsImport ==
    (page = "spare_parts" /\ resp # <<>> /\ resp[1].error # NoError) =>
        /\ sp_pc = "done"
        /\ sp_importError = InsertFailedText(resp[1].error[1])
        /\ sp_importModalOpen
        /\ sp_alert = <<>>
        /\ Len(responses) = Len(writes)
        /\ \A k \in DOMAIN writes : writes[k].at <= sp_i
        /\ writes[Len(writes)].at = sp_i

\* a batch failed in the middle of an import: one batch before it was
\* written and at least one batch after it was never submitted
C3_Witness ==
    /\ page = "spare_parts"
    /\ resp # <<>>
    /\ resp[1].error # NoError
    /\ sp_pc = "done"
    /\ sp_i > 0
    /\ sp_i + BATCH_SIZE < Len(toInsert)

(***************************************************************************)
(* C4.  A first write rejected for a reason other than an unknown column   *)
(* (a not-null violation, no connection) is not retried: one write call    *)
(* for the batch, its error returned unchanged, the import halted.         *)
(***************************************************************************)
C4_WriteErrorNotRetried ==
    (page = "spare_parts" /\ resp1 # <<>> /\ resp1[1].error \in WriteErrors) =>
        /\ writes[Len(writes)].attempt = 1
        /\ Cardinality(WritesAt(sp_i)) = 1
        /\ resp = resp1
        /\ sp_pc = "done"

(***************************************************************************)
(* C5.  Every batch gets at most two write calls, the insert and at most   *)
(* one retry, whatever the backend answers; a batch moves only along       *)
(* Pending -> Submitted -> {Success | SchemaError -> Retried | Failed},     *)
(* Retried -> {Success | Failed}, and is in Success or Failed whenever     *)
(* tryInsertWithMissingColumnRecovery is not running.                      *)
(***************************************************************************)
C5_BatchSteps ==
    { <<"Pending", "Submitted">>, <<"Submitted", "Success">>,
      <<"Submitted", "Failed">>, <<"Submitted", "Retried">>,
      <<"Retried", "Success">>, <<"Retried", "Failed">> }

C5_Bounded ==
    page = "spare_parts" =>
        /\ \A k \in DOMAIN writes :
              /\ writes[k].attempt \in {1, 2}
              /\ Cardinality(WritesAt(writes[k].at)) <= 2
        /\ Len(writes) <= 2 * CeilDiv(Len(toInsert), BATCH_SIZE)
        /\ sp_pc \in {"idle", "loop", "done"} =>
              \A at \in Offsets : BatchState(at) \in {"Pending", "Success", "Failed"}
        /\ sp_pc = "await_insert" => BatchState(sp_i) = "Submitted"
        /\ sp_pc = "await_retry" => BatchState(sp_i) = "Retried"

C5_AtMostOneRetry ==
    /\ []C5_Bounded
    /\ [][page = "spare_parts" =>
            \A at \in Offsets :
                \/ BatchState(at)' = BatchState(at)
                \/ <<BatchState(at), BatchState(at)'>> \in C5_BatchSteps]_vars

\* the retry of a batch was itself rejected for an unknown column: the
\* case in which a second retry would be the next step
C5_Witness ==
    /\ page = "spare_parts"
    /\ sp_pc = "done"
    /\ Len(writes) >= 2
    /\ writes[Len(writes)].attempt = 2
    /\ Failed(Len(writes))
    /\ Retries(responses[Len(writes)])

(***************************************************************************)
(* C6.  As claimed: whenever a batch ends in failure, the failure          *)
(* surfaced is the first write's failure, unchanged.                       *)
(***************************************************************************)
C6_OriginalFailureSurfaced ==
    (page = "spare_parts" /\ resp # <<>> /\ resp[1].error # NoError) =>
        /\ resp = resp1
        /\ sp_importError = InsertFailedText(resp1[1].error[1])

(***************************************************************************)
(* C6, amended.  When no column name can be extracted from the first       *)
(* failure, that failure is surfaced unchanged; when the one retry also    *)
(* fails, the failure surfaced is the retry's.  importError shows the      *)
(* surfaced failure's message and details.                                 *)
(***************************************************************************)
C6_LastFailureSurfaced ==
    (page = "spare_parts" /\ resp # <<>> /\ resp[1].error # NoError) =>
        /\ resp[1] = responses[Len(responses)]
        /\ sp_importError = InsertFailedText(resp[1].error[1])
        /\ writes[Len(writes)].attempt = 1 =>
              resp = resp1 /\ missingMatch(ErrorMessage(resp1[1])) = <<>>
        /\ writes[Len(writes)].attempt = 2 =>
              /\ missingMatch(ErrorMessage(resp1[1])) # <<>>
              /\ resp1[1] = responses[Len(responses) - 1]

\* the retry failed with another failure than the first write's
C6_Witness ==
    /\ page = "spare_parts"
    /\ resp # <<>>
    /\ resp[1].error # NoError
    /\ writes[Len(writes)].attempt = 2
    /\ resp # resp1

(***************************************************************************)
(* C7.  The retry payload has the rows of the failing batch, in the same   *)
(* number and order; in every row the matched column and its snake-case    *)
(* and camel-case variants are absent and every other key keeps its        *)
(* value; the rows of the batch itself are as they were prepared.          *)
(***************************************************************************)
C7_Stripped(col) == {col, camelToSnake(col), snakeToCamel(col)}

C7_RetryPayload ==
    \A k \in DOMAIN writes :
        writes[k].attempt = 2 =>
            LET orig == writes[k - 1].rows
                sent == writes[k].rows
                gone == C7_Stripped(missingCol(responses[k - 1]))
            IN  /\ writes[k - 1].attempt = 1
                /\ writes[k - 1].at = writes[k].at
                /\ Len(sent) = Len(orig)
                /\ \A j \in 1..Len(orig) :
                      /\ \A key \in DOMAIN sent[j] : Spelling[key] \notin gone
                      /\ \A key \in DOMAIN orig[j] :
                            Spelling[key] \notin gone =>
                                key \in DOMAIN sent[j] /\ sent[j][key] = orig[j][key]
                      /\ DOMAIN sent[j] \subseteq DOMAIN orig[j]
                /\ orig = slice(toInsert, writes[k].at, writes[k].at + BATCH_SIZE)

\* a retry after `column "categoryId" ... does not exist`: rows that held
\* category_id were resubmitted without it
C7_Witness ==
    \E k \in DOMAIN writes :
        /\ writes[k].attempt = 2
        /\ missingCol(responses[k - 1]) = <<"c","a","t","e","g","o","r","y","I","d">>
        /\ \E j \in 1..Len(writes[k].rows) :
              /\ "category_id" \in DOMAIN writes[k - 1].rows[j]
              /\ "category_id" \notin DOMAIN writes[k].rows[j]

(***************************************************************************)
(* C8.  A batch whose first write fails with                               *)
(*   column "rack_id" of relation "spare_parts" does not exist             *)
(* and whose single resubmission succeeds counts as a success: the import  *)
(* goes on with the next batch, and an import all of whose batches         *)
(* succeed ends with no import error, the modal closed and the success     *)
(* message for all rows.                                                   *)
(***************************************************************************)
C8_Recovered(at) ==
    /\ Cardinality(WritesAt(at)) = 2
    /\ responses[LastWriteAt(at) - 1].error = Error(MsgMissingRackId, <<>>)
    /\ Succeeded(LastWriteAt(at))

C8_AllBatchesEnded ==
    \A at \in Offsets : LastWriteAt(at) # 0 /\ Succeeded(LastWriteAt(at))

C8_RecoveredBatchIsSuccess ==
    page = "spare_parts" =>
        /\ \A at \in Offsets :
              (LastWriteAt(at) # 0 /\ Answered(LastWriteAt(at)) /\ C8_Recovered(at)) =>
                  /\ sp_i >= at + BATCH_SIZE
                  /\ (sp_i = at + BATCH_SIZE /\ sp_pc = "loop") =>
                        sp_importError = <<>> /\ resp[1].error = NoError
                  /\ \A j \in 1..Len(writes[LastWriteAt(at)].rows) :
                        "rack_id" \notin DOMAIN writes[LastWriteAt(at)].rows[j]
        /\ (sp_pc = "done" /\ toInsert # <<>> /\ C8_AllBatchesEnded) =>
              /\ sp_importError = <<>>
              /\ sp_alert = <<Len(toInsert)>>
              /\ ~sp_importModalOpen

\* an import of several batches ended in success although the first write
\* of its first batch was rejected for rack_id
C8_Witness ==
    /\ page = "spare_parts"
    /\ sp_pc = "done"
    /\ sp_alert # <<>>
    /\ Len(toInsert) > BATCH_SIZE
    /\ C8_Recovered(0)

(***************************************************************************)
(* C9.  Within one import the batches are written in input order and one   *)
(* at a time: a write is issued only when every earlier write has          *)
(* returned, the first writes of the batches go through the offsets 0, K,  *)
(* 2K, ... in this order, and a retry directly follows the write it        *)
(* retries.                                                                *)
(***************************************************************************)
C9_InOrderOneAtATime ==
    /\ Len(writes) - Len(responses) \in {0, 1}
    /\ \A k \in DOMAIN writes :
          /\ writes[k].attempt = 1 =>
                writes[k].at = K * Cardinality({ j \in 1..(k - 1) : writes[j].attempt = 1 })
          /\ writes[k].attempt # 1 =>
                k > 1 /\ writes[k - 1].at = writes[k].at /\ Failed(k - 1)
          /\ k > 1 => writes[k - 1].at <= writes[k].at
          /\ (k > 1 /\ writes[k].attempt = 1) => Succeeded(k - 1) \/ page = "inventory"

\* the third batch is in flight after two batches, one of them retried
C9_Witness ==
    /\ page = "spare_parts"
    /\ Len(writes) = 4
    /\ Len(responses) = 3
    /\ writes[4].at = 2 * BATCH_SIZE
    /\ \E k \in 1..3 : writes[k].attempt = 2

(***************************************************************************)
(* C10.  An import of N rows in which every write succeeds submits         *)
(* ceil(N/K) batches, K = 200 (spare parts) or 300 (inventory); every      *)
(* batch has between 1 and K rows, only the last may have fewer than K,    *)
(* and the batches in submission order make up the prepared rows.          *)
(***************************************************************************)
C10_ImportOver ==
    \/ page = "spare_parts" /\ sp_pc = "done" /\ sp_alert # <<>>
    \/ page = "inventory" /\ inv_pc = "done" /\ inv_importMessage # <<>>

C10_Batching ==
    (C10_ImportOver /\ \A k \in DOMAIN writes : Succeeded(k)) =>
        /\ Len(writes) = CeilDiv(Len(Rows), K)
        /\ \A k \in DOMAIN writes :
              /\ Len(writes[k].rows) >= 1
              /\ Len(writes[k].rows) <= K
              /\ k < Len(writes) => Len(writes[k].rows) = K
        /\ SubmittedRows(1) = Rows

\* three batches, the last of a single row, all written
C10_Witness ==
    /\ C10_ImportOver
    /\ \A k \in DOMAIN writes : Succeeded(k)
    /\ Len(writes) = 3
    /\ Len(writes[3].rows) = 1

(***************************************************************************)
(* C11.  An import that ends after some batch was written and a later      *)
(* batch failed shows the user the number of rows written so far (the      *)
(* rows of the batches whose write succeeded) together with the failure.   *)
(* What the pages show is importError and, with a row count, the alert of  *)
(* the spare-parts page and the importMessage of the inventory page.       *)
(***************************************************************************)
C11_Written(at) == LastWriteAt(at) # 0 /\ Succeeded(LastWriteAt(at))

C11_RowsWritten ==
    Cardinality({ r \in 1..Len(Rows) : C11_Written(((r - 1) \div K) * K) })

C11_PartlyWritten ==
    /\ IF page = "spare_parts" THEN sp_pc = "done" ELSE inv_pc = "done"
    /\ \E at \in Offsets, later \in Offsets :
          /\ at < later
          /\ C11_Written(at)
          /\ LastWriteAt(later) # 0
          /\ Failed(LastWriteAt(later))

C11_PartialCountReported ==
    C11_PartlyWritten =>
        IF page = "spare_parts"
        THEN sp_importError # <<>> /\ sp_alert = <<C11_RowsWritten>>
        ELSE inv_importError # <<>> /\ inv_importMessage = <<C11_RowsWritten>>

(***************************************************************************)
(* Numeric coercion: safeNum of the inventory page, the reorder_threshold  *)
(* coercion of the spare-parts page and of the dashboard page.  A cell is  *)
(* null, undefined, a number Num(n) or a text Text(c), c its characters.   *)
(***************************************************************************)
\* texts of cells have up to MaxCellLen characters
MaxCellLen == 3

Text(c) == [t |-> "text", c |-> c]

DigitChars == <<"0","1","2","3","4","5","6","7","8","9">>

\* the decimal digits of a natural number
RECURSIVE NatChars(_)
NatChars(n) ==
    IF n < 10 THEN <<DigitChars[n + 1]>>
    ELSE NatChars(n \div 10) \o <<DigitChars[(n % 10) + 1]>>

\* String(v) of a text or an integer
StringOf(v) ==
    IF v.t = "text" THEN v.c
    ELSE IF v.n < 0 THEN <<"-">> \o NatChars(-v.n)
    ELSE NatChars(v.n)

\* .replace(/[^0-9.\-]/g, '')
StripNonNumeric(s) == SelectSeq(s, LAMBDA c : c \in Digits \cup {".", "-"})

DigitValue(c) == (CHOOSE k \in 1..10 : DigitChars[k] = c) - 1

\* the value of a sequence of digits (0 for none)
RECURSIVE DigitsValue(_)
DigitsValue(s) ==
    IF s = <<>> THEN 0
    ELSE 10 * DigitsValue(SubSeq(s, 1, Len(s) - 1)) + DigitValue(s[Len(s)])

\* a fraction's digits without its trailing zeros
RECURSIVE TrimZeros(_)
TrimZeros(s) ==
    IF s # <<>> /\ s[Len(s)] = "0" THEN TrimZeros(SubSeq(s, 1, Len(s) - 1)) ELSE s

\* s without its leading "-", s being a text of digits, "." and "-"
Unsigned(s) == IF s # <<>> /\ s[1] = "-" THEN Tail(s) ELSE s

Dots(s) == { k \in DOMAIN s : s[k] = "." }

\* whether Number(s) is a finite number, s being a text of digits, "." and
\* "-": the empty text, or an optional "-" and a decimal literal
IsDecimalLiteral(s) ==
    \/ s = <<>>
    \/ LET u == Unsigned(s)
       IN  /\ \A k \in DOMAIN u : u[k] # "-"
           /\ Cardinality(Dots(u)) <= 1
           /\ \E k \in DOMAIN u : u[k] \in Digits

\* Number(s) for such a text: Num(n) for an integer, else the number with
\* its sign, integer part and fraction digits; NaN when s is no literal
NumberOfText(s) ==
    IF ~IsDecimalLiteral(s) THEN NaN
    ELSE IF s = <<>> THEN Num(0)
    ELSE LET u    == Unsigned(s)
             dot  == IF Dots(u) = {} THEN Len(u) + 1 ELSE CHOOSE k \in Dots(u) : TRUE
             int  == DigitsValue(SubSeq(u, 1, dot - 1))
             frac == TrimZeros(SubSeq(u, dot + 1, Len(u)))
             neg  == s[1] = "-"
         IN  IF frac = <<>> THEN Num(IF neg THEN -int ELSE int)
             ELSE [t |-> "num", neg |-> neg, n |-> int, frac |-> frac]

\* Number.isFinite(n) ? n : dflt
FiniteOr(n, dflt) == IF n = NaN THEN dflt ELSE n

\* inventory page: safeNum(v)
safeNum(v) ==
    FiniteOr(NumberOfText(StripNonNumeric(
                 IF v \in {Null, Undefined} THEN <<>> ELSE StringOf(v))),
             Num(0))

\* spare-parts page: reorder_threshold of rowObj, v the cell the lookups
\* found (undefined when none did)
sp_reorder_threshold(cell) ==
    LET v == Nullish(cell, Null)
    IN  IF v = Null \/ v = Text(<<>>) THEN Null
        ELSE FiniteOr(NumberOfText(StripNonNumeric(StringOf(v))), Null)

\* dashboard page: reorder_threshold of a row
dash_reorder_threshold(cell) ==
    LET v == Nullish(cell, Null)
    IN  IF v = Null \/ v = Undefined \/ v = Text(<<>>) THEN Null
        ELSE FiniteOr(NumberOfText(StripNonNumeric(StringOf(v))), Null)

\* the characters of the texts of cells
CellChars == {"1", "0", ".", "-", "x", " "}

RECURSIVE TextsUpTo(_)
TextsUpTo(n) ==
    IF n = 0 THEN {<<>>}
    ELSE TextsUpTo(n - 1)
         \cup { Append(s, c) : s \in { x \in TextsUpTo(n - 1) : Len(x) = n - 1 },
                               c \in CellChars }

Cell == {Null, Undefined, Num(0), Num(12), Num(-3)}
            \cup { Text(c) : c \in TextsUpTo(MaxCellLen) }

CoercionCalls ==
    { [fn |-> f, arg |-> <<v>>] :
        f \in {"safeNum", "sp_reorder_threshold", "dash_reorder_threshold"}, v \in Cell }

Call_safeNum ==
    /\ call.fn = "safeNum"
    /\ result = <<>>
    /\ result' = <<safeNum(call.arg[1])>>
    /\ UNCHANGED <<call, tabVars, postVars, fileVars, apiVars, importVars, storeVars>>

Call_sp_reorder_threshold ==
    /\ call.fn = "sp_reorder_threshold"
    /\ result = <<>>
    /\ result' = <<sp_reorder_threshold(call.arg[1])>>
    /\ UNCHANGED <<call, tabVars, postVars, fileVars, apiVars, importVars, storeVars>>

Call_dash_reorder_threshold ==
    /\ call.fn = "dash_reorder_threshold"
    /\ result = <<>>
    /\ result' = <<dash_reorder_threshold(call.arg[1])>>
    /\ UNCHANGED <<call, tabVars, postVars, fileVars, apiVars, importVars, storeVars>>

(***************************************************************************)
(* C12.  Numeric coercion of a cell: every character other than a digit,   *)
(* "." and "-" is stripped and the rest parsed; a cell with no numeric     *)
(* character at all, or whose stripped text is not a finite number, gives  *)
(* the field's default: 0 for safeNum, null for the reorder_threshold of   *)
(* the spare-parts and dashboard pages.                                    *)
(***************************************************************************)
C12_Stripped(v) ==
    IF v \in {Null, Undefined} THEN <<>> ELSE StripNonNumeric(StringOf(v))

C12_Default(fn) == IF fn = "safeNum" THEN Num(0) ELSE Null

C12_CoercionDefaults ==
    (call.fn \in {"safeNum", "sp_reorder_threshold", "dash_reorder_threshold"}
        /\ result # <<>>) =>
        LET s == C12_Stripped(call.arg[1])
        IN  result[1] = IF s = <<>> \/ ~IsDecimalLiteral(s) THEN C12_Default(call.fn)
                        ELSE NumberOfText(s)

(***************************************************************************)
(* Inventory page: what importSelectedSheet makes of one sheet row.  A row *)
(* is a sequence of <<header, cell>>, the cells as in numeric coercion.    *)
(***************************************************************************)
\* String.prototype.trim on the characters of the model
RECURSIVE trimStart(_)
trimStart(s) == IF s # <<>> /\ IsSpace(s[1]) THEN trimStart(Tail(s)) ELSE s

RECURSIVE trimEnd(_)
trimEnd(s) ==
    IF s # <<>> /\ IsSpace(s[Len(s)]) THEN trimEnd(SubSeq(s, 1, Len(s) - 1)) ELSE s

trim(s) == trimEnd(trimStart(s))

\* String(v) as a cell value
StringV(v) == Text(StringOf(v))

\* uuidLike(): `sku-${Date.now()...}-${random}`, the fresh-th one
uuidLike(fresh) == Text(<<"s","k","u","-">> \o NatChars(fresh))

\* the keys importSelectedSheet looks up in `norm` (blanks written _sp_)
NormKey ==
    [ item_id |-> <<"i","t","e","m","_","i","d">>,
      itemid |-> <<"i","t","e","m","i","d">>,
      item_sp_id |-> <<"i","t","e","m"," ","i","d">>,
      item_name |-> <<"i","t","e","m","_","n","a","m","e">>,
      itemname |-> <<"i","t","e","m","n","a","m","e">>,
      item_sp_name |-> <<"i","t","e","m"," ","n","a","m","e">>,
      name |-> <<"n","a","m","e">>,
      category |-> <<"c","a","t","e","g","o","r","y">>,
      warehouse_id |-> <<"w","a","r","e","h","o","u","s","e","_","i","d">>,
      warehouseid |-> <<"w","a","r","e","h","o","u","s","e","i","d">>,
      warehouse_sp_id |-> <<"w","a","r","e","h","o","u","s","e"," ","i","d">>,
      warehouse |-> <<"w","a","r","e","h","o","u","s","e">>,
      rack_id |-> <<"r","a","c","k","_","i","d">>,
      rackid |-> <<"r","a","c","k","i","d">>,
      rack_sp_id |-> <<"r","a","c","k"," ","i","d">>,
      rack |-> <<"r","a","c","k">>,
      stock_on_hand |-> <<"s","t","o","c","k","_","o","n","_","h","a","n","d">>,
      stock_onhand |-> <<"s","t","o","c","k","_","o","n","h","a","n","d">>,
      stock_sp_on_sp_hand |-> <<"s","t","o","c","k"," ","o","n"," ","h","a","n","d">>,
      qty |-> <<"q","t","y">>,
      reorder_level |-> <<"r","e","o","r","d","e","r","_","l","e","v","e","l">>,
      reorderlevel |-> <<"r","e","o","r","d","e","r","l","e","v","e","l">>,
      reorder_sp_level |-> <<"r","e","o","r","d","e","r"," ","l","e","v","e","l">>,
      unit_cost |-> <<"u","n","i","t","_","c","o","s","t">>,
      unitcost |-> <<"u","n","i","t","c","o","s","t">>,
      unit_sp_cost |-> <<"u","n","i","t"," ","c","o","s","t">>,
      unitprice |-> <<"u","n","i","t","p","r","i","c","e">> ]

\* for (const k of Object.keys(r)) norm[k.trim().toLowerCase()] = r[k], from
\* column n on
RECURSIVE normFrom(_, _, _)
normFrom(r, n, norm) ==
    IF n > Len(r) THEN norm
    ELSE LET key == LowerSeq(trim(r[n][1]))
         IN  normFrom(r, n + 1,
                      [x \in DOMAIN norm \cup {key} |-> IF x = key THEN r[n][2] ELSE norm[x]])

\* String(x).trim() || null
TrimmedOrNull(x) ==
    IF trim(StringOf(x)) = <<>> THEN Null ELSE Text(trim(StringOf(x)))

\* the callback of json.map in importSelectedSheet
payloadOf(r, fresh) ==
    LET norm == normFrom(r, 1, <<>>)
    IN  [ sku |-> StringV(Nullish(Get(norm, NormKey.item_id),
                  Nullish(Get(norm, NormKey.itemid),
                  Nullish(Get(norm, NormKey.item_sp_id), uuidLike(fresh))))),
          name |-> StringV(Nullish(Get(norm, NormKey.item_name),
                  Nullish(Get(norm, NormKey.itemname),
                  Nullish(Get(norm, NormKey.item_sp_name),
                  Nullish(Get(norm, NormKey.name), Text(<<>>)))))),
          category |-> TrimmedOrNull(Nullish(Get(norm, NormKey.category), Text(<<>>))),
          warehouse_id |-> TrimmedOrNull(Nullish(Get(norm, NormKey.warehouse_id),
                  Nullish(Get(norm, NormKey.warehouseid),
                  Nullish(Get(norm, NormKey.warehouse_sp_id),
                  Nullish(Get(norm, NormKey.warehouse), Text(<<>>)))))),
          rack_id |-> TrimmedOrNull(Nullish(Get(norm, NormKey.rack_id),
                  Nullish(Get(norm, NormKey.rackid),
                  Nullish(Get(norm, NormKey.rack_sp_id),
                  Nullish(Get(norm, NormKey.rack), Text(<<>>)))))),
          qty |-> safeNum(Nullish(Get(norm, NormKey.stock_on_hand),
                  Nullish(Get(norm, NormKey.stock_onhand),
                  Nullish(Get(norm, NormKey.stock_sp_on_sp_hand),
                  Nullish(Get(norm, NormKey.qty), Num(0)))))),
          unit_price |-> safeNum(Nullish(Get(norm, NormKey.unit_cost),
                  Nullish(Get(norm, NormKey.unitcost),
                  Nullish(Get(norm, NormKey.unit_sp_cost),
                  Nullish(Get(norm, NormKey.unitprice), Num(0)))))),
          reorder_threshold |-> safeNum(Nullish(Get(norm, NormKey.reorder_level),
                  Nullish(Get(norm, NormKey.reorderlevel),
                  Nullish(Get(norm, NormKey.reorder_sp_level), Num(0))))) ]

\* headers of the rows the mappers are called on, with the spellings the
\* mappers' lookups name
CallHeader ==
    [ item_id |-> <<"i","t","e","m","_","i","d">>,
      ItemID |-> Header.ItemID,
      itemid |-> <<"i","t","e","m","i","d">>,
      sku |-> Header.sku,
      id |-> <<"i","d">>,
      WarehouseID |-> Header.WarehouseID,
      warehouse_id |-> <<"w","a","r","e","h","o","u","s","e","_","i","d">>,
      RackID |-> Header.RackID,
      rack_id |-> <<"r","a","c","k","_","i","d">>,
      SparePartsID |-> Header.SparePartsID,
      contact_phone |-> <<"c","o","n","t","a","c","t","_","p","h","o","n","e">>,
      Phone |-> Header.Phone,
      reorder_threshold |-> <<"r","e","o","r","d","e","r","_","t","h","r","e","s","h","o","l","d">>,
      ReorderLevel |-> Header.ReorderLevel,
      item_name |-> <<"i","t","e","m","_","n","a","m","e">>,
      ItemName |-> Header.ItemName,
      Rate |-> Header.Rate,
      Padded |-> <<" ","I","t","e","m"," ","I","D"," ">> ]

CallHeaders == { CallHeader[h] : h \in DOMAIN CallHeader }

\* rows of the inventory page's sheets: one column of interest, alone or
\* before a name column, or no column at all
PageRows ==
    {<<>>}
    \cup { Cells(<<h>>, <<c>>) :
             h \in CallHeaders,
             c \in {Text(<<"S","K","U","-","1">>), Text(<<>>), Text(<<" ">>), Num(7)} }
    \cup { Cells(<<h, Header.ItemName>>, <<c, Text(<<"B","o","l","t">>)>>) :
             h \in {CallHeader.item_id, CallHeader.ItemID, CallHeader.sku},
             c \in {Text(<<"S","K","U","-","1">>), Text(<<>>)} }

\* rows of the workbooks of the warehouses page, likewise
BookRows ==
    {<<>>}
    \cup { Cells(<<h>>, <<c>>) :
             h \in CallHeaders, c \in {Str("X1"), Str(""), Num(0), Num(7)} }
    \cup { Cells(<<h, Header.ItemName>>, <<c, Str("Bolt")>>) :
             h \in {CallHeader.id, CallHeader.WarehouseID, CallHeader.RackID},
             c \in {Str("X1"), Str("")} }

\* the calls count from FreshAtCall made-up identifiers on
FreshAtCall == 1

MapperCalls ==
    { [fn |-> f, arg |-> <<r, FreshAtCall>>] :
        f \in {"mapWarehouseRow", "mapInventoryRow", "mapRackRow", "mapSpareRow"},
        r \in BookRows }

PayloadCalls == { [fn |-> "payloadOf", arg |-> <<r, FreshAtCall>>] : r \in PageRows }

Call_payloadOf ==
    /\ call.fn = "payloadOf"
    /\ result = <<>>
    /\ result' = <<payloadOf(call.arg[1], call.arg[2])>>
    /\ UNCHANGED <<call, tabVars, postVars, fileVars, apiVars, importVars, storeVars>>

Call_mapWarehouseRow ==
    /\ call.fn = "mapWarehouseRow"
    /\ result = <<>>
    /\ result' = <<mapWarehouseRow(call.arg[1], call.arg[2], 0)>>
    /\ UNCHANGED <<call, tabVars, postVars, fileVars, apiVars, importVars, storeVars>>

Call_mapInventoryRow ==
    /\ call.fn = "mapInventoryRow"
    /\ result = <<>>
    /\ result' = <<mapInventoryRow(call.arg[1], call.arg[2])>>
    /\ UNCHANGED <<call, tabVars, postVars, fileVars, apiVars, importVars, storeVars>>

Call_mapRackRow ==
    /\ call.fn = "mapRackRow"
    /\ result = <<>>
    /\ result' = <<mapRackRow(call.arg[1], call.arg[2])>>
    /\ UNCHANGED <<call, tabVars, postVars, fileVars, apiVars, importVars, storeVars>>

Call_mapSpareRow ==
    /\ call.fn = "mapSpareRow"
    /\ result = <<>>
    /\ result' = <<mapSpareRow(call.arg[1], call.arg[2])>>
    /\ UNCHANGED <<call, tabVars, postVars, fileVars, apiVars, importVars, storeVars>>

(***************************************************************************)
(* C13.  The inventory page's row mapping and the four workbook row        *)
(* mappers give every row a record whose identifier is neither null nor    *)
(* empty; a row whose identifier column is missing, or whose identifier    *)
(* cell is blank, gets the synthesized placeholder identifier.             *)
(***************************************************************************)
C13_Mappings ==
    {"payloadOf", "mapWarehouseRow", "mapInventoryRow", "mapRackRow", "mapSpareRow"}

\* the identifier of the record a mapping returned
C13_Identifier(fn, rec) ==
    IF fn \in {"payloadOf", "mapInventoryRow"} THEN rec.sku ELSE rec.id

\* the placeholder the mapping makes up
C13_Placeholder(fn, fresh) ==
    IF fn = "payloadOf" THEN uuidLike(fresh)
    ELSE IF fn = "mapWarehouseRow" THEN uid("W", fresh)
    ELSE IF fn = "mapInventoryRow" THEN uid("sku", fresh)
    ELSE IF fn = "mapRackRow" THEN uid("rack", fresh)
    ELSE uid("sp", fresh)

\* a column's header as the mapping reads it
C13_Read(fn, header) ==
    IF fn = "payloadOf" THEN LowerSeq(trim(header)) ELSE tolerant(header)

\* the identifier columns of each mapping, as read
C13_IdColumns(fn) ==
    IF fn = "payloadOf" THEN {<<"i","t","e","m","_","i","d">>, <<"i","t","e","m","i","d">>, <<"i","t","e","m"," ","i","d">>}
    ELSE IF fn = "mapWarehouseRow" THEN {<<"w","a","r","e","h","o","u","s","e","i","d">>, <<"i","d">>}
    ELSE IF fn = "mapInventoryRow" THEN {<<"i","t","e","m","i","d">>, <<"s","k","u">>}
    ELSE IF fn = "mapRackRow" THEN {<<"r","a","c","k","i","d">>, <<"i","d">>}
    ELSE {<<"s","p","a","r","e","p","a","r","t","s","i","d">>, <<"i","d">>}

C13_BlankCell(v) == v \in {Null, Undefined, Str(""), Text(<<>>)}

C13_NoIdentifier(fn, row) ==
    \A c \in DOMAIN row :
        C13_Read(fn, row[c][1]) \in C13_IdColumns(fn) => C13_BlankCell(row[c][2])

C13_IdentifierNeverBlank ==
    (call.fn \in C13_Mappings /\ result # <<>>) =>
        /\ ~C13_BlankCell(C13_Identifier(call.fn, result[1]))
        /\ C13_NoIdentifier(call.fn, call.arg[1]) =>
              C13_Identifier(call.fn, result[1]) = C13_Placeholder(call.fn, call.arg[2])

(***************************************************************************)
(* Spare-parts page: expectedHeaders and findHeaderForField.  A header is  *)
(* a text, or (for a caller that passes it) null or a number; a field is   *)
(* named by its string, spelled out by Spelling.                           *)
(***************************************************************************)
expectedHeaders ==
    [ part_number |->
          << <<"p","a","r","t","_","n","u","m","b","e","r">>,
             <<"p","a","r","t"," ","n","o">>,
             <<"p","a","r","t","n","o">>,
             <<"p","a","r","t"," ","n","o",".">>,
             <<"s","k","u">>,
             <<"p","a","r","t","n","o",".">> >>,
      name |->
          << <<"n","a","m","e">>,
             <<"p","a","r","t"," ","n","a","m","e">>,
             <<"i","t","e","m","_","n","a","m","e">>,
             <<"i","t","e","m"," ","n","a","m","e">> >>,
      description |->
          << <<"d","e","s","c","r","i","p","t","i","o","n">>,
             <<"d","e","s","c">>,
             <<"d","e","t","a","i","l","s">> >>,
      category |->
          << <<"c","a","t","e","g","o","r","y">>,
             <<"c","a","t">> >>,
      compatibility |->
          << <<"c","o","m","p","a","t","i","b","i","l","i","t","y">>,
             <<"c","o","m","p","a","t","i","b","l","e">>,
             <<"f","i","t","s">> >>,
      reorder_threshold |->
          << <<"r","e","o","r","d","e","r","_","l","e","v","e","l">>,
             <<"r","e","o","r","d","e","r","_","t","h","r","e","s","h","o","l","d">>,
             <<"r","e","o","r","d","e","r">>,
             <<"r","e","o","r","d","e","r"," ","l","e","v","e","l">>,
             <<"r","e","o","r","d","e","r","_","t","h","r","e","s","h","o","l","d">> >> ]

\* (h || '').toString().toLowerCase().trim()
lowerOf(h) ==
    IF h \in {Null, Undefined, Num(0)} THEN <<>> ELSE trim(LowerSeq(StringOf(h)))

\* lower.indexOf(x): the first position holding x, 0 for none (-1 in the code)
indexOf(lower, x) ==
    IF \E k \in DOMAIN lower : lower[k] = x
    THEN CHOOSE k \in DOMAIN lower : lower[k] = x /\ \A j \in 1..(k - 1) : lower[j] # x
    ELSE 0

\* field.replace(/_/g, ' ')
spaced(s) == [k \in DOMAIN s |-> IF s[k] = "_" THEN " " ELSE s[k]]

\* the same loop run over the columns first: the first column that holds any
\* candidate
byCandidate_columnFirst(headers, lower, candidates, n) ==
    IF \E k \in DOMAIN lower : \E c \in DOMAIN candidates : lower[k] = LowerSeq(candidates[c])
    THEN <<headers[CHOOSE k \in DOMAIN lower :
                      /\ \E c \in DOMAIN candidates : lower[k] = LowerSeq(candidates[c])
                      /\ \A j \in 1..(k - 1) :
                            \A c \in DOMAIN candidates : lower[j] # LowerSeq(candidates[c])]>>
    ELSE <<>>

\* for (const cand of candidates) { idx = lower.indexOf(cand.toLowerCase());
\* if (idx >= 0) return headers[idx] }, from candidate n on; <<>> when the
\* loop ends without returning
RECURSIVE byCandidate(_, _, _, _)
byCandidate(headers, lower, candidates, n) ==
    IF n > Len(candidates) THEN <<>>
    ELSE IF indexOf(lower, LowerSeq(candidates[n])) > 0
    THEN <<headers[indexOf(lower, LowerSeq(candidates[n]))]>>
    ELSE byCandidate(headers, lower, candidates, n + 1)

\* for (let i = 0; ...) if (lower[i].includes(frag)) return headers[i], from i on
RECURSIVE bySubstring(_, _, _, _)
bySubstring(headers, lower, frag, i) ==
    IF i > Len(lower) THEN Null
    ELSE IF Includes(lower[i], frag) THEN headers[i]
    ELSE bySubstring(headers, lower, frag, i + 1)

findHeaderForField(headers, field) ==
    LET candidates == IF field \in DOMAIN expectedHeaders THEN expectedHeaders[field]
                      ELSE <<>>
        lower == [k \in DOMAIN headers |-> lowerOf(headers[k])]
        found == byCandidate(headers, lower, candidates, 1)
    IN  IF found # <<>> THEN found[1]
        ELSE IF \E k \in DOMAIN headers : headers[k] = Text(Spelling[field])
        THEN Text(Spelling[field])
        ELSE bySubstring(headers, lower, spaced(Spelling[field]), 1)

\* a sheet has up to MaxHeaders columns
MaxHeaders == 2

HeaderPool ==
    { Text(<<"P","a","r","t"," ","N","o">>),
      Text(<<"p","a","r","t","-","n","o">>),
      Text(<<"S","K","U">>),
      Text(<<"P","a","r","t"," ","N","u","m","b","e","r">>),
      Text(<<"p","a","r","t","_","n","u","m","b","e","r">>),
      Text(<<"I","t","e","m"," ","N","a","m","e">>),
      Text(<<" ","N","A","M","E"," ">>),
      Text(<<"M","y"," ","N","a","m","e"," ","I","s">>),
      Text(<<"I","t","e","m","-","N","a","m","e">>),
      Text(<<"R","e","o","r","d","e","r"," ","L","e","v","e","l">>),
      Text(<<"D","e","s","c">>),
      Text(<<"c","a","t">>),
      Null, Num(7) }

RECURSIVE HeaderRows(_)
HeaderRows(n) ==
    IF n = 0 THEN {<<>>}
    ELSE HeaderRows(n - 1)
         \cup { Append(hs, h) : hs \in { x \in HeaderRows(n - 1) : Len(x) = n - 1 },
                                h \in HeaderPool }

\* the fields doImportSelectedSheet asks for, and one without candidates
Fields ==
    {"part_number", "name", "description", "category", "compatibility",
     "reorder_threshold", "rack_id"}

FindHeaderCalls ==
    { [fn |-> "findHeaderForField", arg |-> <<hs, f>>] :
        hs \in HeaderRows(MaxHeaders), f \in Fields }

Call_findHeaderForField ==
    /\ call.fn = "findHeaderForField"
    /\ result = <<>>
    /\ result' = <<findHeaderForField(call.arg[1], call.arg[2])>>
    /\ UNCHANGED <<call, tabVars, postVars, fileVars, apiVars, importVars, storeVars>>

(***************************************************************************)
(* C14.  For a field of expectedHeaders and headers among which one has    *)
(* the normalized form (lower case, neither white space nor any character  *)
(* outside a-z, 0-9) of one of the field's aliases, findHeaderForField     *)
(* returns a header, not null, whose normalized form is that of one of     *)
(* the field's aliases.                                                    *)
(***************************************************************************)
C14_Normalized(h) == IF h.t \in {"text", "num"} THEN tolerant(StringOf(h)) ELSE <<>>

C14_Aliases(field) ==
    { tolerant(expectedHeaders[field][a]) : a \in DOMAIN expectedHeaders[field] }

C14_AliasHeaderResolved ==
    (call.fn = "findHeaderForField" /\ result # <<>>
        /\ call.arg[2] \in DOMAIN expectedHeaders
        /\ \E k \in DOMAIN call.arg[1] :
              C14_Normalized(call.arg[1][k]) \in C14_Aliases(call.arg[2])) =>
        /\ result[1] # Null
        /\ C14_Normalized(result[1]) \in C14_Aliases(call.arg[2])

(***************************************************************************)
(* C15.  findHeaderForField resolves in priority order, the first match    *)
(* winning: the earliest alias of the field's list that equals a header    *)
(* (lower-cased, trimmed), whatever the column order; else a header equal  *)
(* to the field name; else the first header that contains the field name   *)
(* with its underscores turned to blanks; else null.  Null and numeric     *)
(* headers and a field without a list are resolved like any other.         *)
(***************************************************************************)
C15_Lower(h) ==
    IF h \in {Null, Num(0)} THEN <<>> ELSE trim(LowerSeq(StringOf(h)))

C15_AliasList(field) ==
    IF field \in DOMAIN expectedHeaders THEN expectedHeaders[field] ELSE <<>>

\* the aliases that some header equals
C15_Matched(headers, field) ==
    { a \in DOMAIN C15_AliasList(field) :
        \E k \in DOMAIN headers : C15_Lower(headers[k]) = LowerSeq(C15_AliasList(field)[a]) }

C15_Least(S) == CHOOSE x \in S : \A y \in S : x <= y

C15_Expected(headers, field) ==
    LET matched == C15_Matched(headers, field)
        same    == { k \in DOMAIN headers : headers[k] = Text(Spelling[field]) }
        holds   == { k \in DOMAIN headers :
                       Includes(C15_Lower(headers[k]), spaced(Spelling[field])) }
    IN  IF matched # {}
        THEN headers[C15_Least({ k \in DOMAIN headers :
                 C15_Lower(headers[k]) =
                     LowerSeq(C15_AliasList(field)[C15_Least(matched)]) })]
        ELSE IF same # {} THEN Text(Spelling[field])
        ELSE IF holds # {} THEN headers[C15_Least(holds)]
        ELSE Null

C16_Listed(fn) ==
    IF fn = "mapWarehouseRow" THEN
        { <<<<"w","a","r","e","h","o","u","s","e","i","d">>, "id">>,
          <<<<"c","o","n","t","a","c","t","_","p","h","o","n","e">>, "contact_phone">>,
          <<<<"p","h","o","n","e">>, "contact_phone">> }
    ELSE IF fn = "mapInventoryRow" THEN
        { <<<<"i","t","e","m","_","i","d">>, "sku">>,
          <<<<"i","t","e","m","i","d">>, "sku">>,
          <<<<"s","k","u">>, "sku">>,
          <<<<"i","t","e","m","_","n","a","m","e">>, "name">>,
          <<<<"w","a","r","e","h","o","u","s","e","_","i","d">>, "warehouseId">>,
          <<<<"r","a","c","k","_","i","d">>, "rackId">>,
          <<<<"r","e","o","r","d","e","r","_","t","h","r","e","s","h","o","l","d">>, "reorderThreshold">> }
    ELSE IF fn = "mapRackRow" THEN
        { <<<<"r","a","c","k","_","i","d">>, "id">>,
          <<<<"i","d">>, "id">>,
          <<<<"w","a","r","e","h","o","u","s","e","_","i","d">>, "warehouseId">>,
          <<<<"i","t","e","m","_","n","a","m","e">>, "itemName">> }
    ELSE
        { <<<<"s","p","a","r","e","p","a","r","t","s","_","i","d">>, "id">>,
          <<<<"i","d">>, "id">>,
          <<<<"i","t","e","m","_","n","a","m","e">>, "name">>,
          <<<<"w","a","r","e","h","o","u","s","e","_","i","d">>, "warehouseId">> }

\* what the cell 7 is in a field of the record
C16_Supplied(field) == IF field = "reorderThreshold" THEN Num(7) ELSE Str("7")

C16_ListedAliasSupplies ==
    (call.fn \in {"mapWarehouseRow", "mapInventoryRow", "mapRackRow", "mapSpareRow"}
        /\ result # <<>>
        /\ Len(call.arg[1]) = 1
        /\ call.arg[1][1][2] = Num(7)) =>
        \A l \in C16_Listed(call.fn) :
            LowerSeq(call.arg[1][1][1]) = l[1] => result[1][l[2]] = C16_Supplied(l[2])

(***************************************************************************)
(* The header normalizer called on its own.                                *)
(***************************************************************************)
\* header strings have up to MaxHeaderLen characters
MaxHeaderLen == 3

HeaderChars == {"A", "b", "Z", "1", " ", "_", "-", "₹"}

RECURSIVE HeaderTexts(_)
HeaderTexts(n) ==
    IF n = 0 THEN {<<>>}
    ELSE HeaderTexts(n - 1)
         \cup { Append(s, c) : s \in { x \in HeaderTexts(n - 1) : Len(x) = n - 1 },
                               c \in HeaderChars }

TolerantCalls == { [fn |-> "tolerant", arg |-> <<h>>] : h \in HeaderTexts(MaxHeaderLen) }

Call_tolerant ==
    /\ call.fn = "tolerant"
    /\ result = <<>>
    /\ result' = <<tolerant(call.arg[1])>>
    /\ UNCHANGED <<call, tabVars, postVars, fileVars, apiVars, importVars, storeVars>>

(***************************************************************************)
(* C17.  tolerant is idempotent: normalizing the normalized header gives   *)
(* it back; the normalized header has only characters of a-z and 0-9; the  *)
(* empty header is normalized to the empty header.                         *)
(***************************************************************************)
C17_TolerantIdempotent ==
    (call.fn = "tolerant" /\ result # <<>>) =>
        /\ tolerant(result[1]) = result[1]
        /\ \A k \in DOMAIN result[1] : result[1][k] \in Digits \/ IsLower(result[1][k])
        /\ call.arg[1] = <<>> => result[1] = <<>>

\* a header with a capital, a digit and a character that is dropped
C17_Witness ==
    /\ call.fn = "tolerant"
    /\ result # <<>>
    /\ \E k \in DOMAIN call.arg[1] : IsUpper(call.arg[1][k])
    /\ \E k \in DOMAIN call.arg[1] : call.arg[1][k] \in {"_", "-", "₹"}
    /\ Len(result[1]) = 2

(***************************************************************************)
(* Choosing a file: what each page does with it before any import.         *)
(***************************************************************************)
\* a file XLSX.read parses (the import pages take its rows from toInsert /
\* payloads), and one on which XLSX.read throws
Readable == [ok |-> TRUE, sheets |-> <<"Sheet1">>]

PageFiles == {Readable, Unparseable}

\* 'Failed to parse Excel file. Check browser console for details.'
TextParseExcelFailed ==
    <<<<"F", "a", "i", "l", "e", "d", " ", "t", "o", " ", "p", "a", "r", "s", "e", " ",
        "E", "x", "c", "e", "l", " ", "f", "i", "l", "e", ".", " ", "C", "h", "e", "c",
        "k", " ", "b", "r", "o", "w", "s", "e", "r", " ", "c", "o", "n", "s", "o", "l",
        "e", " ", "f", "o", "r", " ", "d", "e", "t", "a", "i", "l", "s", ".">>>>

\* 'Failed to read workbook. Make sure it is a valid .xlsx file.'
TextReadFailed ==
    <<<<"F", "a", "i", "l", "e", "d", " ", "t", "o", " ", "r", "e", "a", "d", " ", "w",
        "o", "r", "k", "b", "o", "o", "k", ".", " ", "M", "a", "k", "e", " ", "s", "u",
        "r", "e", " ", "i", "t", " ", "i", "s", " ", "a", " ", "v", "a", "l", "i", "d",
        " ", ".", "x", "l", "s", "x", " ", "f", "i", "l", "e", ".">>>>

\* the catch branch opens the sheet modal as the try branch does
handleFileInput_opensModal(file) ==
    /\ page = "spare_parts"
    /\ sp_pc = "idle"
    /\ ~sp_importModalOpen
    /\ Len(files) < MaxImports
    /\ files' = Append(files, file)
    /\ UNCHANGED apiVars
    /\ IF file.ok
       THEN /\ sp_importError' = <<>>
            /\ sp_selectedSheet' = <<>>
            /\ sp_importModalOpen' = TRUE
       ELSE /\ sp_importError' = TextParseExcelFailed
            /\ sp_importModalOpen' = TRUE
            /\ UNCHANGED sp_selectedSheet
    /\ UNCHANGED <<tabVars, postVars, fnVars, storeVars, page, backendVars, invVars, sp_importing, sp_alert,
                   toInsert, sp_i, sp_pc, resp1, resp>>

\* spare-parts page: the hidden file input's onchange.  The `Import` button
\* that opens the file dialog lies under the modal's overlay, so a file is
\* chosen while the modal is closed; files are chosen while no import runs.
handleFileInput(file) ==
    /\ page = "spare_parts"
    /\ sp_pc = "idle"
    /\ ~sp_importModalOpen
    /\ Len(files) < MaxImports
    /\ files' = Append(files, file)
    /\ UNCHANGED apiVars
    /\ IF file.ok
       THEN \* workbookRef.current = workbook; setSelectedSheet(null);
            \* setImportModalOpen(true)
            /\ sp_importError' = <<>>
            /\ sp_selectedSheet' = <<>>
            /\ sp_importModalOpen' = TRUE
       ELSE \* catch: setImportError(...)
            /\ sp_importError' = TextParseExcelFailed
            /\ UNCHANGED <<sp_selectedSheet, sp_importModalOpen>>
    /\ UNCHANGED <<tabVars, postVars, fnVars, storeVars, page, backendVars, invVars, sp_importing, sp_alert,
                   toInsert, sp_i, sp_pc, resp1, resp>>

\* spare-parts page: a sheet button of the modal
onChooseSheet(name) ==
    /\ page = "spare_parts"
    /\ sp_pc = "idle"
    /\ sp_importModalOpen
    /\ sp_importError' = <<>>
    /\ sp_selectedSheet' = <<name>>
    /\ UNCHANGED <<tabVars, postVars, fileVars, apiVars, fnVars, storeVars, page, backendVars, invVars,
                   sp_importModalOpen, sp_importing, sp_alert, toInsert, sp_i, sp_pc,
                   resp1, resp>>

\* spare-parts page: a click on the modal's overlay (Modal onClose)
onClose ==
    /\ page = "spare_parts"
    /\ sp_pc = "idle"
    /\ sp_importModalOpen
    /\ sp_importModalOpen' = FALSE
    /\ UNCHANGED <<tabVars, postVars, fileVars, apiVars, fnVars, storeVars, page, backendVars, invVars,
                   sp_selectedSheet, sp_importing, sp_importError, sp_alert, toInsert,
                   sp_i, sp_pc, resp1, resp>>

\* spare-parts page: the modal's Cancel button
CancelImport ==
    /\ page = "spare_parts"
    /\ sp_pc = "idle"
    /\ sp_importModalOpen
    /\ sp_importModalOpen' = FALSE
    /\ sp_selectedSheet' = <<>>
    /\ sp_importError' = <<>>
    /\ UNCHANGED <<tabVars, postVars, fileVars, apiVars, fnVars, storeVars, page, backendVars, invVars, sp_importing,
                   sp_alert, toInsert, sp_i, sp_pc, resp1, resp>>

\* spare-parts page: the modal's `Import Sheet` button
ClickImportSheet == sp_importModalOpen /\ doImportSelectedSheet

\* inventory page: the file input's onChange
onFileChosen(file) ==
    /\ page = "inventory"
    /\ inv_pc = "idle"
    /\ Len(files) < MaxImports
    /\ files' = Append(files, file)
    /\ UNCHANGED apiVars
    \* setWorkbook(null); setSelectedSheet(null); setImportMessage(null)
    /\ inv_selectedSheet' = <<>>
    /\ inv_importMessage' = <<>>
    /\ inv_importError' = IF file.ok THEN <<>> ELSE TextReadFailed
    /\ UNCHANGED <<tabVars, postVars, fnVars, storeVars, page, backendVars, spVars, inv_importing, payloads,
                   inv_i, inv_pc, upserted>>

\* inventory page: showSheetPicker && workbookSheets && sheetPreviews
showSheetPicker == files # <<>> /\ files[Len(files)].ok

\* inventory page: a sheet button of the sheet picker
setSelectedSheet(name) ==
    /\ page = "inventory"
    /\ inv_pc = "idle"
    /\ showSheetPicker
    /\ inv_selectedSheet' = <<name>>
    /\ UNCHANGED <<tabVars, postVars, fileVars, apiVars, fnVars, storeVars, page, backendVars, spVars, inv_importing,
                   inv_importError, inv_importMessage, payloads, inv_i, inv_pc, upserted>>

Pages == {"spare_parts", "inventory", "warehouses"}

\* a page just loaded: no file chosen, nothing selected, nothing written
FileInit ==
    /\ page \in Pages
    /\ writes = <<>>
    /\ responses = <<>>
    /\ sp_selectedSheet = <<>>
    /\ inv_selectedSheet = <<>>
    /\ sp_importModalOpen = FALSE
    /\ sp_importing = FALSE
    /\ sp_importError = <<>>
    /\ sp_alert = <<>>
    /\ \E n \in RowCounts(IF page = "spare_parts" THEN BATCH_SIZE ELSE batchSize) :
          /\ toInsert = IF page = "spare_parts"
                        THEN [k \in 1..n |-> rowObj(k, k % 2)] ELSE <<>>
          /\ payloads = IF page = "inventory"
                        THEN [k \in 1..n |-> payloadRow(k, k % 2)] ELSE <<>>
    /\ sp_i = 0
    /\ sp_pc = "idle"
    /\ resp1 = <<>>
    /\ resp = <<>>
    /\ inv_importing = FALSE
    /\ inv_importError = <<>>
    /\ inv_importMessage = <<>>
    /\ inv_i = 0
    /\ inv_pc = "idle"
    /\ upserted = 0
    /\ StoreInit
    /\ NoCallInit
    /\ NoFileInit
    /\ NoTabInit
    /\ NoApiInit
    /\ NoPostInit

ChooseSparePartsFile == \E file \in PageFiles : handleFileInput(file)

ChooseSheet == onChooseSheet("Sheet1")

ChooseInventoryFile == \E file \in PageFiles : onFileChosen(file)

PickSheet == setSelectedSheet("Sheet1")

FileNext ==
    \/ ChooseSparePartsFile
    \/ ChooseSheet
    \/ onClose
    \/ CancelImport
    \/ ClickImportSheet
    \/ SubmitBatch
    \/ InsertReturns
    \/ RetryReturns
    \/ FinishImport
    \/ ChooseInventoryFile
    \/ PickSheet
    \/ importSelectedSheet
    \/ SubmitChunk
    \/ UpsertReturns
    \/ FinishInventoryImport
    \/ ImportWorkbook

FileSpec == FileInit /\ [][FileNext]_vars

(***************************************************************************)
(* C18: when the chosen file cannot be parsed as a workbook, the page      *)
(* shows its parse error and nothing is written: the step that takes the   *)
(* file issues no batch write, changes none of the four stores and posts   *)
(* no broadcast, and nothing is written for as long as that file is the   *)
(* last one chosen.                                                        *)
(***************************************************************************)
C18_Unparsed == files # <<>> /\ ~files[Len(files)].ok

C18_Surfaced ==
    /\ page = "spare_parts" => sp_importError = TextParseExcelFailed
    /\ page = "inventory" => inv_importError = TextReadFailed
    /\ page = "warehouses" => fu_errors = TextParseFailed

C18_NothingWritten ==
    /\ writes' = writes
    /\ localStorage' = localStorage
    /\ posted' = posted

MaxRows == 2

\* the scopes of the switch
Scopes == {"warehouses", "inventory", "transactions", "spare_parts", "tasks"}

\* the table a scope writes to
TableOf(sc) == IF sc = "inventory" THEN "inventory_items" ELSE sc

\* the fields POST tests before it writes: if (!row.sku || !row.name || ...)
Mandatory(sc) ==
    IF sc = "inventory" THEN {"sku", "name", "warehouse_id"}
    ELSE IF sc = "transactions" THEN {"warehouse_id", "type", "source_destination", "qty"}
    ELSE {}

\* the scopes that look the row up first and update what they find
LooksUp(sc) == sc \in {"warehouses", "inventory", "spare_parts"}

\* the throw of the mandatory-field test
MissingMessage(sc) ==
    IF sc = "inventory" THEN "Missing required fields: sku, name, warehouse_id"
    ELSE "Missing required fields"

\* !row.a || !row.b || ...
MissingRequired(sc, row) == \E f \in Mandatory(sc) : ~Truthy(row[f])

\* the field a scope looks a row up by: .eq(field, row[field])
KeyField(sc) ==
    IF sc = "warehouses" THEN "name"
    ELSE IF sc = "inventory" THEN "sku"
    ELSE "part_number"

\* the key of a row of a scope that looks up
KeyOf(sc, row) == row[KeyField(sc)]

\* a row with every field the scope reads filled in
Complete(sc) ==
    IF sc = "inventory"
    THEN [sku |-> Str("A1"), name |-> Str("Bolt"), warehouse_id |-> Str("W1")]
    ELSE IF sc = "transactions"
    THEN [warehouse_id |-> Str("W1"), type |-> Str("Inbound"),
          source_destination |-> Str("Dock"), qty |-> Num(5)]
    ELSE IF sc = "spare_parts"
    THEN [part_number |-> Str("P1")]
    ELSE IF sc = "warehouses"
    THEN [name |-> Str("Main")]
    ELSE [title |-> Str("Count")]

\* what a field holds when the sheet gave nothing for it
Blanks(f) == IF f = "qty" THEN {Undefined, Str(""), Num(0)} ELSE {Undefined, Str("")}

\* the rows of a request: the complete row, the complete row with one
\* mandatory field blank, and the row with every mandatory field absent
RequestRows(sc) ==
    {Complete(sc)}
    \cup (IF LooksUp(sc) THEN {[Complete(sc) EXCEPT ![KeyField(sc)] = Str("B2")]} ELSE {})
    \cup UNION {{[Complete(sc) EXCEPT ![f] = v] : v \in Blanks(f)} : f \in Mandatory(sc)}
    \cup {[f \in DOMAIN Complete(sc) |->
              IF f \in Mandatory(sc) THEN Undefined ELSE Complete(sc)[f]]}

RequestData(sc) == UNION {[1..n -> RequestRows(sc)] : n \in 0..MaxRows}

\* errors.push({ row: i + 1, field: 'general', message: err.message }), 0-based
ErrorEntry_zeroBased(i, message) == [row |-> i, field |-> "general", message |-> message]

\* errors.push({ row: i + 1, field: 'general', message: err.message })
ErrorEntry(i, message) == [row |-> i + 1, field |-> "general", message |-> message]

\* one supabase insert or update call of the row at index i; the values
\* written are not part of this model
DbCall(table, op, i) == [table |-> table, op |-> op, i |-> i]

\* the error a write can come back with
DbError == "duplicate key value violates unique constraint"

\* the table before the request: none, one or both of the keys the rows
\* carry are taken
Tables(sc) ==
    IF LooksUp(sc)
    THEN {<<>>, <<KeyOf(sc, Complete(sc))>>, <<Str("B2")>>, <<KeyOf(sc, Complete(sc)), Str("B2")>>}
    ELSE {<<>>}

\* .eq(field, key).maybeSingle(): a row of the table has the key
Existing(sc, row) == \E n \in DOMAIN tableKeys : tableKeys[n] = KeyOf(sc, row)

\* a request arrives: const { scope, data } = body
PostInit ==
    /\ scope \in Scopes \cup {"reports"}
    /\ data \in (IF scope \in Scopes THEN RequestData(scope) ELSE {<<>>})
    /\ post_i = 0
    /\ post_pc = "switch"
    /\ inserted = 0
    /\ updated = 0
    /\ errors = <<>>
    /\ db = <<>>
    /\ response = <<>>
    /\ tableKeys \in Tables(scope)
    /\ ImportIdle
    /\ StoreInit
    /\ NoCallInit
    /\ NoFileInit
    /\ NoTabInit
    /\ NoApiInit
\* default: return NextResponse.json({ error: 'Invalid scope' }, { status: 400 })
InvalidScope ==
    /\ post_pc = "switch"
    /\ scope \notin Scopes
    /\ response' = <<[status |-> 400, error |-> "Invalid scope"]>>
    /\ post_pc' = "done"
    /\ UNCHANGED <<scope, data, post_i, inserted, updated, errors, db, tableKeys>>
    /\ UNCHANGED <<importVars, storeVars, fnVars, fileVars, apiVars, tabVars>>

\* case scope: the loop is entered
EnterLoop ==
    /\ post_pc = "switch"
    /\ scope \in Scopes
    /\ post_pc' = "row"
    /\ UNCHANGED <<scope, data, post_i, inserted, updated, errors, db, response, tableKeys>>
    /\ UNCHANGED <<importVars, storeVars, fnVars, fileVars, apiVars, tabVars>>

\* loop head with i < data.length, up to the first await of the row's try
\* block: the mandatory-field test throws into the row's catch, a scope that
\* looks up issues its select, the others issue their insert
CheckRow ==
    /\ post_pc = "row"
    /\ post_i < Len(data)
    /\ LET row == data[post_i + 1]
       IN  IF MissingRequired(scope, row)
           THEN /\ errors' = Append(errors, ErrorEntry(post_i, MissingMessage(scope)))
                /\ post_i' = post_i + 1
                /\ UNCHANGED <<post_pc, db>>
           ELSE IF LooksUp(scope)
           THEN /\ post_pc' = "select"
                /\ UNCHANGED <<post_i, errors, db>>
           ELSE /\ db' = Append(db, DbCall(TableOf(scope), "insert", post_i))
                /\ post_pc' = "insert"
                /\ UNCHANGED <<post_i, errors>>
    /\ UNCHANGED <<scope, data, inserted, updated, response, tableKeys>>
    /\ UNCHANGED <<importVars, storeVars, fnVars, fileVars, apiVars, tabVars>>

\* the lookup finds nothing, whatever the table holds
SelectReturns_neverFinds ==
    /\ post_pc = "select"
    /\ db' = Append(db, DbCall(TableOf(scope), "insert", post_i))
    /\ post_pc' = "insert"
    /\ UNCHANGED <<scope, data, post_i, inserted, updated, errors, response, tableKeys>>
    /\ UNCHANGED <<importVars, storeVars, fnVars, fileVars, apiVars, tabVars>>

\* maybeSingle() returns: if (existing) update ... else insert ...
SelectReturns ==
    /\ post_pc = "select"
    /\ LET existing == Existing(scope, data[post_i + 1])
       IN  /\ db' = Append(db, DbCall(TableOf(scope),
                                      IF existing THEN "update" ELSE "insert", post_i))
           /\ post_pc' = IF existing THEN "update" ELSE "insert"
    /\ UNCHANGED <<scope, data, post_i, inserted, updated, errors, response, tableKeys>>
    /\ UNCHANGED <<importVars, storeVars, fnVars, fileVars, apiVars, tabVars>>

\* the update returns: if (error) throw error; updated++
UpdateRowReturns ==
    /\ post_pc = "update"
    /\ \E failed \in BOOLEAN :
          IF failed
          THEN /\ errors' = Append(errors, ErrorEntry(post_i, DbError))
               /\ UNCHANGED updated
          ELSE /\ updated' = updated + 1
               /\ UNCHANGED errors
    /\ post_i' = post_i + 1
    /\ post_pc' = "row"
    /\ UNCHANGED <<scope, data, inserted, db, response, tableKeys>>
    /\ UNCHANGED <<importVars, storeVars, fnVars, fileVars, apiVars, tabVars>>

\* the insert returns: if (error) throw error; inserted++
InsertRowReturns ==
    /\ post_pc = "insert"
    \* name, sku and part_number are UNIQUE: the insert of a key the table
    \* holds fails; any insert may fail for another reason
    /\ \E failed \in (IF LooksUp(scope) /\ Existing(scope, data[post_i + 1])
                      THEN {TRUE} ELSE BOOLEAN) :
          IF failed
          THEN /\ errors' = Append(errors, ErrorEntry(post_i, DbError))
               /\ UNCHANGED <<inserted, tableKeys>>
          ELSE /\ inserted' = inserted + 1
               /\ tableKeys' = IF LooksUp(scope)
                               THEN Append(tableKeys, KeyOf(scope, data[post_i + 1]))
                               ELSE tableKeys
               /\ UNCHANGED errors
    /\ post_i' = post_i + 1
    /\ post_pc' = "row"
    /\ UNCHANGED <<scope, data, updated, db, response>>
    /\ UNCHANGED <<importVars, storeVars, fnVars, fileVars, apiVars, tabVars>>

\* loop exit: return NextResponse.json({ inserted, updated, errors })
Respond ==
    /\ post_pc = "row"
    /\ post_i >= Len(data)
    /\ response' = <<[status |-> 200, inserted |-> inserted, updated |-> updated,
                      errors |-> errors]>>
    /\ post_pc' = "done"
    /\ UNCHANGED <<scope, data, post_i, inserted, updated, errors, db, tableKeys>>
    /\ UNCHANGED <<importVars, storeVars, fnVars, fileVars, apiVars, tabVars>>

PostNext ==
    \/ InvalidScope
    \/ EnterLoop
    \/ CheckRow
    \/ SelectReturns
    \/ UpdateRowReturns
    \/ InsertRowReturns
    \/ Respond

PostSpec == PostInit /\ [][PostNext]_vars

(***************************************************************************)
(* C19: in the upload endpoint every input row is accounted for exactly    *)
(* once: inserted + updated + the number of error entries equals the       *)
(* number of rows; a row missing a mandatory field causes no write, is     *)
(* recorded with its 1-based row index, and the rows after it are still    *)
(* processed.                                                              *)
(***************************************************************************)
\* the rows the loop has finished with
C19_RowsDone == 1..post_i

\* the error entries and the writes of the row numbered k (1-based)
C19_ErrorsOf(k) == {e \in DOMAIN errors : errors[e].row = k}

C19_WritesOf(k) == {w \in DOMAIN db : db[w].i = k - 1}

C19_Answered == post_pc = "done" /\ scope \in Scopes

C19_EveryRowAccounted ==
    /\ inserted + updated + Len(errors) = post_i
    /\ C19_Answered =>
          /\ post_i = Len(data)
          /\ response[1].inserted + response[1].updated + Len(response[1].errors)
                = Len(data)
    /\ \A k \in C19_RowsDone :
          /\ Cardinality(C19_ErrorsOf(k)) <= 1
          /\ Cardinality(C19_WritesOf(k)) <= 1
          /\ MissingRequired(scope, data[k]) =>
                /\ C19_WritesOf(k) = {}
                /\ Cardinality(C19_ErrorsOf(k)) = 1
          /\ ~MissingRequired(scope, data[k]) => Cardinality(C19_WritesOf(k)) = 1

\* a row without its sku was recorded as row 1 and the row after it was inserted
C19_Witness ==
    /\ C19_Answered
    /\ scope = "inventory"
    /\ Len(data) = 2
    /\ ~Truthy(data[1].sku)
    /\ response[1].inserted = 1
    /\ Len(response[1].errors) = 1
    /\ response[1].errors[1].row = 1
    /\ db = <<DbCall("inventory_items", "insert", 1)>>

(***************************************************************************)
(* C24: in the scopes warehouses, inventory and spare_parts the rows are   *)
(* taken one at a time in input order; when the lookup of a row comes back *)
(* the row goes to update exactly when the table holds its key (name, sku, *)
(* part_number) and to insert otherwise; a write that comes back without   *)
(* an error counts in updated, or counts in inserted and puts the key in   *)
(* the table; the table never holds a key twice; and an upload of two rows *)
(* with one key the table did not hold, answered without errors, has made  *)
(* one insert and then one update.                                         *)
(***************************************************************************)
C24_Row == data[post_i + 1]

\* the table holds no key twice
C24_Unique == \A a, b \in DOMAIN tableKeys : tableKeys[a] = tableKeys[b] => a = b

\* the writes were issued in the order of the rows, one at most for a row
C24_InOrder == \A a, b \in DOMAIN db : a < b => db[a].i < db[b].i

\* the lookup returned in this step
C24_Decided == post_pc = "select" /\ post_pc' # "select"

\* a write returned without an error in this step
C24_Written == post_pc \in {"insert", "update"} /\ post_pc' = "row" /\ errors' = errors

\* an answered upload of two rows with one key, without errors
C24_SameKeyTwice ==
    /\ post_pc = "done"
    /\ LooksUp(scope)
    /\ Len(data) = 2
    /\ KeyOf(scope, data[1]) = KeyOf(scope, data[2])
    /\ errors = <<>>

\* the keys the table held when the request arrived: an insert appends
C24_Before ==
    {tableKeys[n] : n \in 1..(Len(tableKeys) - inserted)}

C20_KeyOf(key, e) == IF key = KEY_INVENTORY THEN InventoryKey(e) ELSE IdKey(e)

C20_Keys(store, key) == {C20_KeyOf(key, store[key][n]) : n \in DOMAIN store[key]}

C20_Unique ==
    \A key \in StoreKeys :
        \A m, n \in DOMAIN localStorage[key] :
            C20_KeyOf(key, localStorage[key][m]) = C20_KeyOf(key, localStorage[key][n])
                => m = n

C20_Kept ==
    \A key \in StoreKeys : C20_Keys(localStorage, key) \subseteq C20_Keys(localStorage', key)

C20_KeysUniqueAndKept == []C20_Unique /\ [][C20_Kept]_vars

\* the second import merged a row onto a staged inventory record and the
\* inventory store holds records under two keys
C20_Witness ==
    /\ clock = 2
    /\ merges # <<>>
    /\ Cardinality(C20_Keys(localStorage, KEY_INVENTORY)) = 2

(***************************************************************************)
(* Warehouses page: add, delete, clear, and the second tab's subscription. *)
(***************************************************************************)
\* a workbook with two warehouses, an item held by both, an item of one, an
\* item of no warehouse, and a rack and a spare part of each warehouse
TwoWarehouses ==
    << [name |-> SheetName.Warehouses,
        rows |-> << Cells(<<Header.WarehouseID, Header.WarehouseName, Header.Location>>,
                          <<Str("W1"), Str("Main"), Str("North")>>),
                    Cells(<<Header.WarehouseID, Header.WarehouseName, Header.Location>>,
                          <<Str("W2"), Str("Yard"), Str("South")>>) >>],
       [name |-> SheetName.Inventory,
        rows |-> << ShortInventoryRow(Str("SKU-1"), Str("W1"), Num(5)),
                    ShortInventoryRow(Str("SKU-1"), Str("W2"), Num(3)),
                    ShortInventoryRow(Str("SKU-2"), Str("W1"), Num(1)),
                    ShortInventoryRow(Str("SKU-3"), Str(""), Num(2)) >>],
       [name |-> SheetName.Racks,
        rows |-> << Cells(<<Header.RackID, Header.WarehouseID>>, <<Str("R1"), Str("W1")>>),
                    Cells(<<Header.RackID, Header.WarehouseID>>, <<Str("R2"), Str("W2")>>),
                    Cells(<<Header.RackID, Header.WarehouseID>>, <<Str("R3"), Str("")>>) >>],
       [name |-> SheetName.SpareParts,
        rows |-> << Cells(<<Header.ItemName, Header.WarehouseID>>, <<Str("Belt"), Str("W1")>>),
                    Cells(<<Header.ItemName, Header.WarehouseID>>,
                          <<Str("Fuse"), Str("W2")>>) >>] >>

\* the files chosen where the page's other operations are exercised
PageBooks ==
    {[ok |-> TRUE, sheets |-> TwoWarehouses],
     [ok |-> TRUE,
      sheets |-> << [name |-> SheetName.Inventory,
                     rows |-> << ShortInventoryRow(Str("SKU-1"), Str("W1"), Num(5)) >>] >>]}

\* r.warehouseId, undefined when the record has no such property
warehouseIdOf(r) == IF "warehouseId" \in DOMAIN r THEN r.warehouseId ELSE Undefined

\* the messages write() posts over n calls
Reloads(n) == [k \in 1..n |-> [type |-> "reload"]]

\* the WarehousesPage at rest, within the operations the model follows
PageReady ==
    /\ page = "warehouses"
    /\ clear_pc = 0
    /\ clock < MaxImports

\* what no operation of the page touches
PageFrame ==
    /\ UNCHANGED <<importVars, fnVars, fileVars, apiVars, postVars>>
    /\ UNCHANGED <<bc_supported, tab_shown, tab_mounted, mounted>>
    /\ UNCHANGED <<fu_message, fu_errors, merges>>

ImportBook == \E file \in PageBooks : handleFile(file)

\* the form of AddWarehouseModal, name and district filled in
Forms ==
    {[name |-> Str("Depot"), district |-> Str("East"), address |-> addr,
      manager |-> Str(""), contact_phone |-> Str("")] : addr \in {Str(""), Str("Pier 4")}}

\* AddWarehouseModal.submit, then onAdded: loadAll
submit(form) ==
    /\ PageReady
    /\ Truthy(form.name) /\ Truthy(form.district)
    /\ LET newWh == [id |-> uid("W", uidCount + 1),
                     name |-> form.name,
                     district |-> form.district,
                     address |-> OrV(form.address, Undefined),
                     manager |-> OrV(form.manager, Undefined),
                     contact_phone |-> OrV(form.contact_phone, Undefined),
                     createdAt |-> ISOString(clock)]
           \* existing.unshift(newWh)
           store == write(localStorage, KEY_WAREHOUSES,
                          <<newWh>> \o read(localStorage, KEY_WAREHOUSES))
       IN  /\ localStorage' = store
           /\ Broadcast(Reloads(1) \o
                        <<[type |-> "added",
                           payload |-> [entity |-> "warehouse", id |-> newWh.id.s]]>>, <<>>)
           /\ shown' = store
           /\ lastOp' = [name |-> "submit", id |-> newWh.id.s]
    /\ uidCount' = uidCount + 1
    /\ clock' = clock + 1
    /\ UNCHANGED clear_pc
    /\ PageFrame

\* only the warehouse is removed: its inventory, racks and spare parts stay
deleteWarehouse_warehouseOnly(id) ==
    /\ PageReady
    /\ LET whs == SelectSeq(read(localStorage, KEY_WAREHOUSES), LAMBDA w : w.id # id)
           s1 == write(localStorage, KEY_WAREHOUSES, whs)
       IN  /\ localStorage' = s1
           /\ Broadcast(Reloads(4) \o
                        <<[type |-> "deleted",
                           payload |-> [entity |-> "warehouse", id |-> id.s]]>>, <<>>)
           /\ shown' = s1
    /\ lastOp' = [name |-> "deleteWarehouse", id |-> id]
    /\ clock' = clock + 1
    /\ UNCHANGED <<uidCount, clear_pc>>
    /\ PageFrame

\* deleteWarehouse(id), confirmed
deleteWarehouse(id) ==
    /\ PageReady
    /\ LET whs == SelectSeq(read(localStorage, KEY_WAREHOUSES), LAMBDA w : w.id # id)
           s1 == write(localStorage, KEY_WAREHOUSES, whs)
           inv == SelectSeq(read(s1, KEY_INVENTORY), LAMBDA it : warehouseIdOf(it) # id)
           s2 == write(s1, KEY_INVENTORY, inv)
           rks == SelectSeq(read(s2, KEY_RACKS), LAMBDA r : warehouseIdOf(r) # id)
           s3 == write(s2, KEY_RACKS, rks)
           sps == SelectSeq(read(s3, KEY_SPAREPARTS), LAMBDA sp : warehouseIdOf(sp) # id)
           s4 == write(s3, KEY_SPAREPARTS, sps)
       IN  /\ localStorage' = s4
           /\ Broadcast(Reloads(4) \o
                        <<[type |-> "deleted",
                           payload |-> [entity |-> "warehouse", id |-> id.s]]>>, <<>>)
           /\ shown' = s4
    /\ lastOp' = [name |-> "deleteWarehouse", id |-> id]
    /\ clock' = clock + 1
    /\ UNCHANGED <<uidCount, clear_pc>>
    /\ PageFrame

\* deleteInventoryItem(sku), confirmed
deleteInventoryItem(sku) ==
    /\ PageReady
    /\ LET inv == SelectSeq(read(localStorage, KEY_INVENTORY), LAMBDA it : it.sku # sku)
           s1 == write(localStorage, KEY_INVENTORY, inv)
       IN  /\ localStorage' = s1
           /\ Broadcast(Reloads(1) \o
                        <<[type |-> "deleted",
                           payload |-> [entity |-> "inventory", id |-> sku.s]]>>, <<>>)
           /\ shown' = s1
    /\ clock' = clock + 1
    /\ UNCHANGED <<uidCount, clear_pc>>
    /\ PageFrame

\* the shared body of deleteRack(id) and deleteSpare(id), confirmed
DeleteById(key, entity, id) ==
    /\ PageReady
    /\ LET rows == SelectSeq(read(localStorage, key), LAMBDA r : r.id # id)
           s1 == write(localStorage, key, rows)
       IN  /\ localStorage' = s1
           /\ Broadcast(Reloads(1) \o
                        <<[type |-> "deleted",
                           payload |-> [entity |-> entity, id |-> id.s]]>>, <<>>)
           /\ shown' = s1
    /\ clock' = clock + 1
    /\ UNCHANGED <<uidCount, clear_pc>>
    /\ PageFrame

deleteRack(id) ==
    /\ DeleteById(KEY_RACKS, "rack", id)
    /\ lastOp' = [name |-> "deleteRack", id |-> id]

deleteSpare(id) ==
    /\ DeleteById(KEY_SPAREPARTS, "spare", id)
    /\ lastOp' = [name |-> "deleteSpare", id |-> id]

\* the records the page lists under key
Shown(key) == {shown[key][n] : n \in DOMAIN shown[key]}

\* the records the details modal of warehouse w lists under key
Listed(key, w) == {r \in Shown(key) : warehouseIdOf(r) = w.id}

AddWarehouse == \E form \in Forms : submit(form)

\* the Delete button of a warehouse card, or of the details modal
ClickDeleteWarehouse == \E w \in Shown(KEY_WAREHOUSES) : deleteWarehouse(w.id)

\* the Delete button of an inventory row of the details modal of warehouse w
ClickDeleteInventoryItem ==
    \E w \in Shown(KEY_WAREHOUSES) :
        \E it \in Listed(KEY_INVENTORY, w) :
            /\ deleteInventoryItem(it.sku)
            /\ lastOp' = [name |-> "deleteInventoryItem", sku |-> it.sku, warehouseId |-> w.id]

ClickDeleteRack ==
    \E w \in Shown(KEY_WAREHOUSES) : \E r \in Listed(KEY_RACKS, w) : deleteRack(r.id)

ClickDeleteSpare ==
    \E w \in Shown(KEY_WAREHOUSES) : \E sp \in Listed(KEY_SPAREPARTS, w) : deleteSpare(sp.id)

\* the order of clearAll's writes
ClearOrder == <<KEY_WAREHOUSES, KEY_INVENTORY, KEY_RACKS, KEY_SPAREPARTS>>

\* clearAll, confirmed: its next write(key, []).  The second tab runs in
\* another process and may handle a message between two of these writes.
ClearAllWrite ==
    /\ page = "warehouses"
    /\ IF clear_pc = 0 THEN clock < MaxImports ELSE clear_pc < Len(ClearOrder)
    /\ localStorage' = write(localStorage, ClearOrder[clear_pc + 1], <<>>)
    /\ Broadcast(Reloads(1), IF clear_pc = 0 THEN <<>> ELSE channelItem)
    /\ clear_pc' = clear_pc + 1
    /\ clock' = IF clear_pc = 0 THEN clock + 1 ELSE clock
    /\ lastOp' = [name |-> "clearAll"]
    /\ UNCHANGED <<shown, uidCount>>
    /\ PageFrame

\* clearAll after its four writes: broadcaster.post({ type: 'reload' }); loadAll()
ClearAllDone ==
    /\ page = "warehouses"
    /\ clear_pc = Len(ClearOrder)
    /\ Broadcast(Reloads(1), channelItem)
    /\ shown' = localStorage
    /\ clear_pc' = 0
    /\ UNCHANGED <<localStorage, uidCount, clock, lastOp>>
    /\ PageFrame

\* what the steps of the second tab leave alone
TabFrame ==
    /\ UNCHANGED <<importVars, storeVars, fnVars, fileVars, apiVars, postVars>>
    /\ UNCHANGED <<bc_supported, channelItem, clear_pc, lastOp, mounted>>

\* the second tab mounts WarehousesPage: useEffect runs loadAll and subscribes
MountTab ==
    /\ ~tab_mounted
    /\ page = "warehouses"
    /\ tab_mounted' = TRUE
    /\ tab_shown' = localStorage
    /\ UNCHANGED inbox
    /\ TabFrame

\* the second tab unmounts it: the effect's cleanup calls unsub()
UnmountTab ==
    /\ tab_mounted
    /\ tab_mounted' = FALSE
    /\ UNCHANGED <<tab_shown, inbox>>
    /\ TabFrame

\* the type test of the subscriber
Reloading(msg) == msg.type \in {"reload", "imported", "added", "deleted"}

\* the event of the oldest message delivered is dispatched in the second
\* tab: its listener, if still registered, runs loadAll
HandleMessage ==
    /\ inbox # <<>>
    /\ inbox' = Tail(inbox)
    /\ tab_shown' = IF tab_mounted /\ Reloading(Head(inbox)) THEN localStorage ELSE tab_shown
    /\ UNCHANGED tab_mounted
    /\ TabFrame

\* one tab with the page loaded on empty stores; a second tab open or not
TabInit ==
    /\ ImportIdle
    /\ StoreInit
    /\ NoCallInit
    /\ NoFileInit
    /\ NoPostInit
    /\ NoApiInit
    /\ bc_supported \in BOOLEAN
    /\ channelItem = <<>>
    /\ inbox = <<>>
    /\ tab_shown = [k \in StoreKeys |-> <<>>]
    /\ tab_mounted \in BOOLEAN
    /\ clear_pc = 0
    /\ lastOp = [name |-> ""]
    /\ mounted = TRUE

TabNext ==
    \/ ImportBook
    \/ AddWarehouse
    \/ ClickDeleteWarehouse
    \/ ClickDeleteInventoryItem
    \/ ClickDeleteRack
    \/ ClickDeleteSpare
    \/ ClearAllWrite
    \/ ClearAllDone
    \/ MountTab
    \/ UnmountTab
    \/ HandleMessage

TabSpec == TabInit /\ [][TabNext]_vars

(***************************************************************************)
(* C21: every change a tab makes to one of the four stores is followed by  *)
(* a broadcast and the other tab reloads on each message, so once it has   *)
(* handled every message sent so far the lists it shows equal the stores;  *)
(* after the page unmounts no message reloads it.                          *)
(***************************************************************************)
\* the writing tab is between operations and the other tab, its page
\* mounted, has no message left to handle
C21_CaughtUp == tab_mounted /\ inbox = <<>> /\ clear_pc = 0

C21_InSync == C21_CaughtUp => tab_shown = localStorage

C21_ChangeBroadcast == localStorage' # localStorage => Len(posted') > Len(posted)

C21_Unsubscribed == (~tab_mounted /\ ~tab_mounted') => tab_shown' = tab_shown

C21_TabsInSync ==
    /\ []C21_InSync
    /\ [][C21_ChangeBroadcast]_vars
    /\ [][C21_Unsubscribed]_vars

\* the same, where new BroadcastChannel() succeeds
C21_InSyncOverBroadcastChannel == bc_supported => C21_InSync

(***************************************************************************)
(* The import pages: the page is unmounted while its import runs.          *)
(***************************************************************************)
\* the import awaits the answer to a batch write
InFlight == Len(responses) < Len(writes)

\* the user leaves the page while a batch is in flight: React unmounts the
\* component.  Neither import function reads anything the unmount changes.
Unmount ==
    /\ page \in {"spare_parts", "inventory"}
    /\ mounted
    /\ InFlight
    /\ mounted' = FALSE
    /\ UNCHANGED <<bc_supported, channelItem, inbox, tab_shown, tab_mounted, clear_pc,
                   lastOp>>
    /\ UNCHANGED <<importVars, storeVars, fnVars, fileVars, apiVars, postVars>>

TeardownNext ==
    \/ doImportSelectedSheet
    \/ SubmitBatch
    \/ InsertReturns
    \/ RetryReturns
    \/ FinishImport
    \/ importSelectedSheet
    \/ SubmitChunk
    \/ UpsertReturns
    \/ FinishInventoryImport
    \/ Unmount

TeardownSpec == Init /\ [][TeardownNext]_vars

(***************************************************************************)
(* C22: if the page is unmounted while an import is running, the batch in  *)
(* flight may complete, but no further batch of that import is submitted   *)
(* afterwards: every write issued after the unmount is the retry of the    *)
(* batch that was in flight.                                               *)
(***************************************************************************)
C22_SameBatch ==
    /\ writes # <<>>
    /\ Len(writes') = Len(writes) + 1
    /\ writes'[Len(writes')].at = writes[Len(writes)].at
    /\ Len(responses) < Len(writes) \/ responses[Len(responses)].error # NoError

C22_NoBatchAfterUnmount == [][(~mounted /\ writes' # writes) => C22_SameBatch]_vars

(***************************************************************************)
(* C23: deleteWarehouse(id), once confirmed, leaves no warehouse with that *)
(* id and no inventory item, rack or spare part whose warehouseId equals   *)
(* id in the stores, and leaves every record of another warehouse, or of   *)
(* no warehouse, unchanged.                                                *)
(***************************************************************************)
\* the records a store holds under key
C23_Records(store, key) == {store[key][n] : n \in DOMAIN store[key]}

\* the records of warehouse id under key
C23_Of(store, key, id) ==
    {r \in C23_Records(store, key) :
        IF key = KEY_WAREHOUSES THEN r.id = id ELSE warehouseIdOf(r) = id}

\* the step is a confirmed deleteWarehouse
C23_Deletes == clock' # clock /\ lastOp'.name = "deleteWarehouse"

C23_Cascade ==
    \A key \in StoreKeys :
        /\ C23_Of(localStorage', key, lastOp'.id) = {}
        /\ C23_Records(localStorage', key)
              = C23_Records(localStorage, key) \ C23_Of(localStorage, key, lastOp'.id)
        /\ Len(localStorage'[key])
              = Len(localStorage[key]) - Cardinality(C23_Of(localStorage, key, lastOp'.id))

C23_DeleteWarehouseCascades == [][C23_Deletes => C23_Cascade]_vars

\* warehouse W1 was deleted from stores that held records of W1, of W2 and
\* of no warehouse: those of W2 and of no warehouse are what is left
C23_Witness ==
    /\ lastOp = [name |-> "deleteWarehouse", id |-> Str("W1")]
    /\ Len(localStorage[KEY_WAREHOUSES]) = 1
    /\ Len(localStorage[KEY_INVENTORY]) = 2
    /\ Len(localStorage[KEY_RACKS]) = 2
    /\ Len(localStorage[KEY_SPAREPARTS]) = 1

(***************************************************************************)
(* C28: deleting an inventory item from a warehouse's details view removes *)
(* only the record of that item in that warehouse (key sku::warehouseId);  *)
(* records with the same sku held by other warehouses, and all other       *)
(* records, are unchanged.                                                 *)
(***************************************************************************)
\* the step is a confirmed delete of an inventory row of the details modal
C28_Deletes == clock' # clock /\ lastOp'.name = "deleteInventoryItem"

\* the records the row stands for: that sku in that warehouse
C28_Target ==
    {r \in C23_Records(localStorage, KEY_INVENTORY) :
        r.sku = lastOp'.sku /\ warehouseIdOf(r) = lastOp'.warehouseId}

C28_OnlyTarget ==
    /\ C23_Records(localStorage', KEY_INVENTORY)
          = C23_Records(localStorage, KEY_INVENTORY) \ C28_Target
    /\ \A key \in StoreKeys \ {KEY_INVENTORY} : localStorage'[key] = localStorage[key]

C28_DeleteItemOfOneWarehouse == [][C28_Deletes => C28_OnlyTarget]_vars

(***************************************************************************)
(* C30: the workbook import is idempotent for rows that carry explicit     *)
(* identifiers: importing the same workbook twice in a row leaves the four *)
(* stores with the same keys and the same field values, createdAt apart,   *)
(* as importing it once.                                                   *)
(***************************************************************************)
\* the identifier columns of each kind of sheet
C30_IdHeaders(kind) ==
    IF kind = "warehouses" THEN {Header.WarehouseID}
    ELSE IF kind = "inventory" THEN {Header.ItemID, Header.sku}
    ELSE IF kind = "racks" THEN {Header.RackID}
    ELSE {Header.SparePartsID}

\* the row has a filled-in identifier cell
C30_Identified(e) ==
    \E c \in DOMAIN e.row : e.row[c][1] \in C30_IdHeaders(e.kind) /\ Truthy(e.row[c][2])

\* the file is a workbook all of whose rows, one at least, carry identifiers
C30_AllIdentified(file) ==
    /\ file.ok
    /\ SheetRows(file.sheets, 1) # <<>>
    /\ \A n \in DOMAIN SheetRows(file.sheets, 1) :
          /\ SheetRows(file.sheets, 1)[n].kind # ""
          /\ C30_Identified(SheetRows(file.sheets, 1)[n])

\* a record without its createdAt
C30_Sans(r) == [x \in DOMAIN r \ {"createdAt"} |-> r[x]]

C30_Values(store, key) == {C30_Sans(store[key][n]) : n \in DOMAIN store[key]}

\* the step imports once more the file that was imported last
C30_Again ==
    /\ files # <<>>
    /\ files' = Append(files, files[Len(files)])
    /\ C30_AllIdentified(files[Len(files)])

C30_Same(keys) ==
    \A key \in keys :
        /\ C30_Values(localStorage', key) = C30_Values(localStorage, key)
        /\ Len(localStorage'[key]) = Len(localStorage[key])

C30_ImportIdempotent == [][C30_Again => C30_Same(StoreKeys)]_vars

\* the same, for the three stores other than spare parts
C30_IdempotentButSpareParts == [][C30_Again => C30_Same(StoreKeys \ {KEY_SPAREPARTS})]_vars

(***************************************************************************)
(* The stock adjust endpoint: POST { sku, warehouseId, delta, reason }.    *)
(* The table inventory_items holds one item; requests arrive, each reads   *)
(* the item, writes the new quantity and inserts a transaction, and the    *)
(* database calls of different requests interleave.                        *)
(***************************************************************************)
MaxRequests == 2

MaxDelta == 2

\* the quantity of the item before the first request
StockAtStart == 1

Deltas == (0 - MaxDelta)..MaxDelta

\* a body with everything filled in, for the item of the table
Adjustment(d) == [sku |-> Str("SKU-1"), warehouseId |-> Str("W1"), delta |-> Num(d)]

\* the bodies of the requests: the adjustments of the item, the adjustment
\* with one of its fields absent, empty or null, and the adjustments of an
\* item the table does not hold
Bodies ==
    {Adjustment(d) : d \in Deltas}
    \cup {[Adjustment(1) EXCEPT !.sku = v] : v \in {Undefined, Str(""), Str("SKU-9")}}
    \cup {[Adjustment(1) EXCEPT !.warehouseId = v] : v \in {Undefined, Str("W2")}}
    \cup {[Adjustment(1) EXCEPT !.delta = v] : v \in {Undefined, Null}}

\* if (!sku || !warehouseId || delta === undefined)
MissingFields(body) ==
    \/ ~Truthy(body.sku)
    \/ ~Truthy(body.warehouseId)
    \/ body.delta = Undefined

\* .eq('sku', sku).eq('warehouse_id', warehouseId): the rows selected
Selected(body) ==
    {n \in DOMAIN inventory_items :
        /\ inventory_items[n].sku = body.sku
        /\ inventory_items[n].warehouse_id = body.warehouseId}

\* item.qty + delta; null counts as 0
NewQty(qty, delta) == IF delta = Null THEN qty ELSE qty + delta.n

\* if (newQty < 0), never true
Insufficient_never(newQty) == FALSE

\* if (newQty < 0)
Insufficient(newQty) == newQty < 0

\* delta > 0 ? 'Spare In' : 'Spare Out'
transactionType(delta) == IF delta # Null /\ delta.n > 0 THEN "Spare In" ELSE "Spare Out"

\* Math.abs(delta)
Abs(delta) == IF delta = Null THEN 0 ELSE IF delta.n < 0 THEN 0 - delta.n ELSE delta.n

\* NextResponse.json({ error }, { status })
ErrorResponse(status, error) == [status |-> status, error |-> error]

\* NextResponse.json(updated)
OkResponse(row) == [status |-> 200, updated |-> row]

\* the row the transaction insert writes; `by` is the request that wrote it
\* and is no column of the table
TransactionRow(r, body) ==
    [warehouse_id |-> body.warehouseId, type |-> transactionType(body.delta),
     sku |-> body.sku, qty |-> Abs(body.delta), status |-> "Completed", by |-> r]

Answer(r, json) ==
    requests' = [requests EXCEPT ![r].pc = "done", ![r].response = <<json>>]

AdjustFrame == UNCHANGED <<items, importVars, storeVars, fnVars, fileVars, postVars, tabVars>>

AdjustInit ==
    /\ inventory_items = <<[sku |-> Str("SKU-1"), warehouse_id |-> Str("W1"),
                            qty |-> StockAtStart]>>
    /\ transactions = <<>>
    /\ requests = <<>>
    /\ items = <<>>
    /\ ImportIdle
    /\ StoreInit
    /\ NoCallInit
    /\ NoFileInit
    /\ NoPostInit
    /\ NoTabInit

\* POST up to its first await: the body is read and tested, the select is
\* issued
Arrive(body) ==
    /\ Len(requests) < MaxRequests
    /\ requests' = Append(requests,
          IF MissingFields(body)
          THEN [body |-> body, pc |-> "done", newQty |-> 0,
                response |-> <<ErrorResponse(400, "Missing required fields")>>]
          ELSE [body |-> body, pc |-> "select", newQty |-> 0, response |-> <<>>])
    /\ UNCHANGED <<inventory_items, transactions>>
    /\ AdjustFrame

\* a request arrives while others may be under way
AdjustArrives == \E body \in Bodies : Arrive(body)

\* a request arrives when every request before it has been answered
AdjustArrivesAlone ==
    /\ \A r \in DOMAIN requests : requests[r].pc = "done"
    /\ \E body \in Bodies : Arrive(body)

\* the select returns: if (fetchError) throw; if (!item) 404;
\* newQty = item.qty + delta; if (newQty < 0) 400; the update is issued
SelectItemReturns ==
    \E r \in DOMAIN requests :
        /\ requests[r].pc = "select"
        /\ \E fetchError \in BOOLEAN :
              LET body == requests[r].body
                  found == Selected(body)
                  item == inventory_items[CHOOSE n \in found : TRUE]
                  newQty == NewQty(item.qty, body.delta)
              IN  IF fetchError
                  THEN Answer(r, ErrorResponse(500, "Failed to adjust inventory"))
                  ELSE IF found = {}
                  THEN Answer(r, ErrorResponse(404, "Item not found"))
                  ELSE IF Insufficient(newQty)
                  THEN Answer(r, ErrorResponse(400, "Insufficient stock"))
                  ELSE requests' = [requests EXCEPT ![r].pc = "update",
                                                    ![r].newQty = newQty]
        /\ UNCHANGED <<inventory_items, transactions>>
        /\ AdjustFrame

\* the update returns: if (updateError) throw; the transaction insert is
\* issued
UpdateItemReturns ==
    \E r \in DOMAIN requests :
        /\ requests[r].pc = "update"
        /\ \E updateError \in BOOLEAN :
              IF updateError
              THEN /\ Answer(r, ErrorResponse(500, "Failed to adjust inventory"))
                   /\ UNCHANGED inventory_items
              ELSE /\ inventory_items' =
                          [n \in DOMAIN inventory_items |->
                              IF n \in Selected(requests[r].body)
                              THEN [inventory_items[n] EXCEPT !.qty = requests[r].newQty]
                              ELSE inventory_items[n]]
                   /\ requests' = [requests EXCEPT ![r].pc = "insert"]
        /\ UNCHANGED transactions
        /\ AdjustFrame

\* await supabase.from('transactions').insert(...) returns, its error is not
\* read; return NextResponse.json(updated)
InsertTransactionReturns ==
    \E r \in DOMAIN requests :
        /\ requests[r].pc = "insert"
        /\ \E error \in BOOLEAN :
              transactions' = IF error THEN transactions
                              ELSE Append(transactions, TransactionRow(r, requests[r].body))
        /\ Answer(r, OkResponse([sku |-> requests[r].body.sku,
                                 warehouse_id |-> requests[r].body.warehouseId,
                                 qty |-> requests[r].newQty]))
        /\ UNCHANGED inventory_items
        /\ AdjustFrame

AdjustNext ==
    \/ AdjustArrives
    \/ SelectItemReturns
    \/ UpdateItemReturns
    \/ InsertTransactionReturns

AdjustSpec == AdjustInit /\ [][AdjustNext]_vars

AdjustOneAtATimeNext ==
    \/ AdjustArrivesAlone
    \/ SelectItemReturns
    \/ UpdateItemReturns
    \/ InsertTransactionReturns

AdjustOneAtATimeSpec == AdjustInit /\ [][AdjustOneAtATimeNext]_vars

(***************************************************************************)
(* C25: with the adjust requests handled one at a time, a request that     *)
(* lacks sku, warehouseId or delta is answered 400, a request for an item  *)
(* the table does not hold is answered 404 and a request whose delta would *)
(* take the quantity below zero is answered 400 'Insufficient stock'       *)
(* (unless the database call itself failed, which is answered 500); the    *)
(* step that gives one of these answers, and every step of that request    *)
(* before it, leaves the quantity and the transactions as they were; and   *)
(* the quantity is never negative.                                         *)
(***************************************************************************)
C25_Absent(body) ==
    body.sku = Undefined \/ body.warehouseId = Undefined \/ body.delta = Undefined

C25_Status(r) == requests[r].response[1].status

C25_Refused(r) ==
    /\ requests[r].pc = "done"
    /\ C25_Status(r) \in {400, 404}

\* the tables hold nothing a refused request wrote: the quantity is the
\* starting quantity moved by the requests answered 200, request r wrote no
\* transaction
C25_NoTrace(r) == \A t \in DOMAIN transactions : transactions[t].by # r

C25_NonNegative == \A n \in DOMAIN inventory_items : inventory_items[n].qty >= 0

\* request r is answered in this step
C25_AnsweredNow(r) ==
    /\ r \in DOMAIN requests'
    /\ requests'[r].pc = "done"
    /\ r \in DOMAIN requests => requests[r].pc # "done"

\* request r's select returns in this step
C25_SelectedNow(r) ==
    /\ requests[r].pc = "select"
    /\ requests'[r].pc # "select"

C25_RefusalsChangeNothing ==
    [][/\ C25_NonNegative'
       /\ \A r \in DOMAIN requests' :
             /\ C25_Refused(r)' => C25_NoTrace(r)'
             /\ C25_AnsweredNow(r) =>
                   LET body == requests'[r].body
                       status == requests'[r].response[1].status
                       answer == requests'[r].response[1]
                   IN  /\ C25_Absent(body) =>
                             answer = ErrorResponse(400, "Missing required fields")
                       /\ status \in {400, 404} =>
                             /\ inventory_items' = inventory_items
                             /\ transactions' = transactions
                             /\ r \in DOMAIN requests => requests[r].pc = "select"
       /\ \A r \in DOMAIN requests :
             C25_SelectedNow(r) =>
                LET body == requests[r].body
                    answer == requests'[r].response
                IN  /\ inventory_items' = inventory_items
                    /\ transactions' = transactions
                    /\ Selected(body) = {} =>
                          \/ answer = <<ErrorResponse(404, "Item not found")>>
                          \/ answer = <<ErrorResponse(500, "Failed to adjust inventory")>>
                    /\ (\E n \in Selected(body) :
                           NewQty(inventory_items[n].qty, body.delta) < 0) =>
                          \/ answer = <<ErrorResponse(400, "Insufficient stock")>>
                          \/ answer = <<ErrorResponse(500, "Failed to adjust inventory")>>
      ]_vars

\* an adjustment by -1 took the quantity to 0 and the next adjustment by -1
\* was answered 'Insufficient stock'
C25_Witness ==
    /\ Len(requests) = 2
    /\ requests[1].body = Adjustment(0 - 1)
    /\ requests[1].pc = "done"
    /\ C25_Status(1) = 200
    /\ requests[2].body = Adjustment(0 - 1)
    /\ requests[2].pc = "done"
    /\ requests[2].response[1] = ErrorResponse(400, "Insufficient stock")
    /\ inventory_items[1].qty = 0
    /\ Len(transactions) = 1

(***************************************************************************)
(* C26: whatever the interleaving of the adjust requests on one item, once *)
(* every request has been answered the quantity is the starting quantity   *)
(* plus the deltas of the requests answered with success.                  *)
(***************************************************************************)
C26_Succeeded(r) == requests[r].pc = "done" /\ requests[r].response[1].status = 200

C26_DeltaOf(r) ==
    IF C26_Succeeded(r) /\ requests[r].body.delta # Null
    THEN requests[r].body.delta.n
    ELSE 0

RECURSIVE C26_Sum(_)
C26_Sum(n) == IF n = 0 THEN 0 ELSE C26_Sum(n - 1) + C26_DeltaOf(n)

C26_Quiet == \A r \in DOMAIN requests : requests[r].pc = "done"

C26_NoLostAdjustment ==
    (C26_Quiet /\ inventory_items # <<>>) =>
        inventory_items[1].qty = StockAtStart + C26_Sum(Len(requests))

(***************************************************************************)
(* C27: a request answered with success has inserted exactly one           *)
(* transaction, with status 'Completed', qty |delta| and type 'Spare In'   *)
(* for a positive delta and 'Spare Out' otherwise; so no answered request  *)
(* has changed the quantity without a transaction.                         *)
(***************************************************************************)
C27_Of(r) == {t \in DOMAIN transactions : transactions[t].by = r}

C27_Recorded(r) ==
    /\ Cardinality(C27_Of(r)) = 1
    /\ \A t \in C27_Of(r) :
          /\ transactions[t].status = "Completed"
          /\ transactions[t].qty = Abs(requests[r].body.delta)
          /\ transactions[t].type =
                (IF requests[r].body.delta # Null /\ requests[r].body.delta.n > 0
                 THEN "Spare In" ELSE "Spare Out")

C27_EverySuccessRecorded ==
    \A r \in DOMAIN requests : C26_Succeeded(r) => C27_Recorded(r)

\* what holds in the code: a transaction is of a request that had written
\* the quantity, carries the stated fields, and no request has two
C27_TransactionsWellFormed ==
    \A r \in DOMAIN requests :
        /\ Cardinality(C27_Of(r)) <= 1
        /\ C27_Of(r) # {} => (C26_Succeeded(r) /\ C27_Recorded(r))

(***************************************************************************)
(* Inventory page: loadInventory fills `items`, then the realtime handler  *)
(* of subscribeRealtime applies the postgres_changes events of the table   *)
(* inventory_items to it.                                                  *)
(***************************************************************************)
\* the names of the model in the order of localeCompare
NameOrder == <<"", "Axle", "Bolt", "Clamp">>

NameRank(name) == CHOOSE n \in DOMAIN NameOrder : NameOrder[n] = name.s

\* a.name.localeCompare(b.name) <= 0
NotAfter(a, b) == NameRank(a.name) <= NameRank(b.name)

\* the rows of the table: sku is its key, name is NOT NULL
TableRows ==
    [sku : {Str("SKU-1"), Str("SKU-2")},
     name : {Str("Axle"), Str("Bolt"), Str("Clamp")},
     warehouse_id : {Str("W1"), Null}]

\* a record with no column, and the record of a row that carries its key only
EmptyRecord == [sku |-> Undefined, name |-> Undefined, warehouse_id |-> Undefined]

KeyOnly(row) == [sku |-> row.sku, name |-> Undefined, warehouse_id |-> Undefined]

\* mapRecordToItem, for the columns the handler reads; uuidLike() is a sku
\* no item of the list has
mapRecordToItem(rec) ==
    [sku |-> Nullish(rec.sku, Str("sku-uuid")),
     name |-> Nullish(rec.name, Str("")),
     warehouse_id |-> Nullish(rec.warehouse_id, Null)]

\* `${sku}::${warehouse_id ?? ''}`
compKey(item) == <<item.sku.s, Nullish(item.warehouse_id, Str("")).s>>

\* clone.findIndex(...), 0 for -1
findIndex(list, key) ==
    IF \E n \in DOMAIN list : compKey(list[n]) = key
    THEN CHOOSE n \in DOMAIN list :
             /\ compKey(list[n]) = key
             /\ \A k \in 1..(n - 1) : compKey(list[k]) # key
    ELSE 0

\* one element put into a list sorted by name, behind the elements that do
\* not sort after it
RECURSIVE InsertByName(_, _)
InsertByName(list, item) ==
    IF list = <<>> THEN <<item>>
    ELSE IF NotAfter(list[Len(list)], item) THEN Append(list, item)
    ELSE Append(InsertByName(SubSeq(list, 1, Len(list) - 1), item), list[Len(list)])

\* clone.sort((a, b) => a.name.localeCompare(b.name)): a stable sort
RECURSIVE sort(_)
sort(list) ==
    IF list = <<>> THEN <<>>
    ELSE InsertByName(sort(SubSeq(list, 1, Len(list) - 1)), list[Len(list)])

\* clone.splice(idx, 1)
splice(list, idx) == SubSeq(list, 1, idx - 1) \o SubSeq(list, idx + 1, Len(list))

\* the payload of an event: new and old are <<>> when absent
Payload(ev, new, old) == [eventType |-> ev, new |-> new, old |-> old]

\* the callback of .on('postgres_changes', ...), as the updater of setItems
onChange(prev, payload) ==
    LET recs == payload.new \o payload.old    \* payload.new ?? payload.old
    IN  IF recs = <<>> THEN prev
        ELSE LET mappedRec == mapRecordToItem(recs[1])
                 idx == findIndex(prev, compKey(mappedRec))
             IN  IF payload.eventType \in {"INSERT", "UPDATE"}
                 THEN IF idx = 0
                      THEN sort(Append(prev, mappedRec))
                      ELSE [prev EXCEPT ![idx] = mappedRec]
                 ELSE IF payload.eventType = "DELETE"
                 THEN IF idx # 0 THEN splice(prev, idx) ELSE prev
                 ELSE prev

\* the lists loadInventory sets: .order('name'), one row for a sku
Loaded ==
    {<<>>}
    \cup {<<a>> : a \in TableRows}
    \cup {list \in {<<a, b>> : a \in TableRows, b \in TableRows} :
              list[1].sku # list[2].sku /\ NotAfter(list[1], list[2])}

RealtimeFrame ==
    UNCHANGED <<inventory_items, transactions, requests, importVars, storeVars,
                fnVars, fileVars, postVars, tabVars>>

RealtimeInit ==
    /\ items \in Loaded
    /\ inventory_items = <<>>
    /\ transactions = <<>>
    /\ requests = <<>>
    /\ ImportIdle
    /\ StoreInit
    /\ NoCallInit
    /\ NoFileInit
    /\ NoPostInit
    /\ NoTabInit

\* the table gained a row
OnInsert ==
    /\ \E row \in TableRows : items' = onChange(items, Payload("INSERT", <<row>>, <<>>))
    /\ RealtimeFrame

\* a row of the table changed
OnUpdate ==
    /\ \E row \in TableRows :
          items' = onChange(items, Payload("UPDATE", <<row>>, <<KeyOnly(row)>>))
    /\ RealtimeFrame

\* the table lost a row: new is absent or empty, old carries the row or its key
OnDelete ==
    /\ \E row \in TableRows, new \in {<<>>, <<EmptyRecord>>} :
          \E old \in {row, KeyOnly(row)} :
              items' = onChange(items, Payload("DELETE", new, <<old>>))
    /\ RealtimeFrame

RealtimeNext ==
    \/ OnInsert
    \/ OnUpdate
    \/ OnDelete

RealtimeSpec == RealtimeInit /\ [][RealtimeNext]_vars

(***************************************************************************)
(* C29: after any sequence of INSERT, UPDATE and DELETE events on a loaded *)
(* list, the list is ordered by name and no two of its entries have the    *)
(* same key sku::warehouse_id.                                             *)
(***************************************************************************)
C29_Ordered == \A a, b \in DOMAIN items : a < b => NotAfter(items[a], items[b])

C29_Unique ==
    \A a, b \in DOMAIN items : compKey(items[a]) = compKey(items[b]) => a = b

C29_OrderedAndUnique == C29_Ordered /\ C29_Unique

(***************************************************************************)
(* The helper functions' specification: one call, of any helper, on any    *)
(* of its inputs.                                                          *)
(***************************************************************************)
FnInit ==
    /\ ImportIdle
    /\ StoreInit
    /\ NoFileInit
    /\ NoTabInit
    /\ NoApiInit
    /\ NoPostInit
    /\ \/ call \in CoercionCalls
       \/ call \in PayloadCalls
       \/ call \in MapperCalls
       \/ call \in FindHeaderCalls
       \/ call \in TolerantCalls
    /\ result = <<>>

FnNext ==
    \/ Call_safeNum
    \/ Call_sp_reorder_threshold
    \/ Call_dash_reorder_threshold
    \/ Call_payloadOf
    \/ Call_mapWarehouseRow
    \/ Call_mapInventoryRow
    \/ Call_mapRackRow
    \/ Call_mapSpareRow
    \/ Call_findHeaderForField
    \/ Call_tolerant

FnSpec == FnInit /\ [][FnNext]_vars

=============================================================================
